---- MODULE Spec2Model ----
(***************************************************************************)
(* A model of quickynab: the dialect matcher (findMatchingConfig), the CSV *)
(* parsers (parseCSV, parseYnabCSV, parseBank2YnabCSV, parseDate), the     *)
(* import-id generator and the uploader (uploadTransactions).              *)
(*                                                                         *)
(* Text is modelled character by character: a string is a sequence of      *)
(* one-character strings, so that trimming, truncation, regular-expression *)
(* tests and lengths are computed, not assumed.  A control character is    *)
(* written in caret notation ("^G" is 0x07) and is one element.            *)
(***************************************************************************)
EXTENDS Integers, Sequences, FiniteSets, TLC

VARIABLES
    configs,      \* the dialect registry, in Object.entries order
    matched,      \* outcome of the last findMatchingConfig call
    parsed,       \* outcome of the last parseCSV call
    ynab,         \* the budgeting service: budgets, accounts, recorded entries
    uploaded,     \* outcome of the last uploadTransactions call
    history,      \* the uploadTransactions calls so far, in order
    named,        \* the filename parseCSV settled on for its last arguments
    normalized,   \* outcome of the last parseDate call
    validated,    \* outcome of the last validateCSV call
    requests,     \* the imports under way: POST /api/upload requests and CLI runs
    files,        \* the staged files that exist in the temp directory
    ui            \* the web page: state.ts and what the elements show

libVars == <<configs, matched, parsed, ynab, uploaded, history, named, normalized>>

webVars == <<validated, requests, files, ui>>

vars == <<configs, matched, parsed, ynab, uploaded, history, named, normalized,
          validated, requests, files, ui>>

(***************************************************************************)
(* Strings                                                                 *)
(***************************************************************************)

\* JavaScript null / undefined: a value outside every string of the model.
NULL == <<"null">>

Digits == {"0", "1", "2", "3", "4", "5", "6", "7", "8", "9"}

IsDigit(c) == c \in Digits

DigitVal(c) ==
    CASE c = "0" -> 0 [] c = "1" -> 1 [] c = "2" -> 2 [] c = "3" -> 3
      [] c = "4" -> 4 [] c = "5" -> 5 [] c = "6" -> 6 [] c = "7" -> 7
      [] c = "8" -> 8 [] c = "9" -> 9

DigitChar(n) ==
    CASE n = 0 -> "0" [] n = 1 -> "1" [] n = 2 -> "2" [] n = 3 -> "3"
      [] n = 4 -> "4" [] n = 5 -> "5" [] n = 6 -> "6" [] n = 7 -> "7"
      [] n = 8 -> "8" [] n = 9 -> "9"

\* String(n) of a safe integer: its decimal digits, "-" first when negative.
RECURSIVE NatToString(_)
NatToString(n) ==
    IF n < 10 THEN <<DigitChar(n)>>
    ELSE NatToString(n \div 10) \o <<DigitChar(n % 10)>>

NumberToString(n) == IF n < 0 THEN <<"-">> \o NatToString(-n) ELSE NatToString(n)

\* s.substring(from) with from counted from 1
Drop(s, k) == IF k >= Len(s) THEN <<>> ELSE SubSeq(s, k + 1, Len(s))

\* s.substring(0, k)
Take(s, k) == IF k >= Len(s) THEN s ELSE SubSeq(s, 1, k)

\* all s[i] with lo <= i <= hi are digits  (\d{n} at a fixed place)
DigitsAt(s, lo, hi) == \A i \in lo..hi : IsDigit(s[i])

\* c.repeat(n)
Repeat(c, n) == [i \in 1..n |-> c]

\* String.prototype.includes: pat occurs in s as a contiguous substring
Includes(s, pat) ==
    \E i \in 0..(Len(s) - Len(pat)) :
        \A j \in 1..Len(pat) : s[i + j] = pat[j]

\* JavaScript truthiness of a string-or-null value
Truthy(s) == s # NULL /\ s # <<>>

UpperCase ==
    <<"A", "B", "C", "D", "E", "F", "G", "H", "I", "J", "K", "L", "M",
      "N", "O", "P", "Q", "R", "S", "T", "U", "V", "W", "X", "Y", "Z">>

LowerCase ==
    <<"a", "b", "c", "d", "e", "f", "g", "h", "i", "j", "k", "l", "m",
      "n", "o", "p", "q", "r", "s", "t", "u", "v", "w", "x", "y", "z">>

LowerOf(c) ==
    IF \E i \in 1..Len(UpperCase) : UpperCase[i] = c
    THEN LowerCase[CHOOSE i \in 1..Len(UpperCase) : UpperCase[i] = c]
    ELSE c

UpperOf(c) ==
    IF \E i \in 1..Len(LowerCase) : LowerCase[i] = c
    THEN UpperCase[CHOOSE i \in 1..Len(LowerCase) : LowerCase[i] = c]
    ELSE c

\* String.prototype.toLowerCase
toLowerCase(s) == [i \in 1..Len(s) |-> LowerOf(s[i])]

\* String.prototype.toUpperCase
toUpperCase(s) == [i \in 1..Len(s) |-> UpperOf(s[i])]

(***************************************************************************)
(* Regular expressions of the filename patterns.  The patterns of the      *)
(* model use literals, ".", "\" escapes and the anchors "^" and "$"; a     *)
(* pattern with an unterminated "[" or "(" does not compile.               *)
(***************************************************************************)

\* the atoms of a pattern body: <<kind, char>> with kind "lit" or "any"
RECURSIVE RegExpAtoms(_)
RegExpAtoms(p) ==
    IF p = <<>> THEN <<>>
    ELSE IF p[1] = "\\" /\ Len(p) >= 2
         THEN <<<<"lit", p[2]>>>> \o RegExpAtoms(Drop(p, 2))
    ELSE IF p[1] = "." THEN <<<<"any", ".">>>> \o RegExpAtoms(Drop(p, 1))
    ELSE <<<<"lit", p[1]>>>> \o RegExpAtoms(Drop(p, 1))

\* new RegExp(pattern) throws a SyntaxError
RegExpThrows(p) ==
    \/ \E i \in 1..Len(p) :
           /\ p[i] = "["
           /\ (i = 1 \/ p[i - 1] # "\\")
           /\ ~ \E j \in (i + 1)..Len(p) : p[j] = "]"
    \/ \E i \in 1..Len(p) :
           /\ p[i] = "("
           /\ (i = 1 \/ p[i - 1] # "\\")
           /\ ~ \E j \in (i + 1)..Len(p) : p[j] = ")"

\* the atoms occur in s from offset i on, with the anchors respected
AtomsMatchAt(atoms, atStart, atEnd, s, i) ==
    /\ atStart => i = 0
    /\ atEnd => i + Len(atoms) = Len(s)
    /\ \A j \in 1..Len(atoms) : atoms[j][1] = "any" \/ atoms[j][2] = s[i + j]

AtomsMatch(atoms, atStart, atEnd, s) ==
    \E i \in 0..(Len(s) - Len(atoms)) : AtomsMatchAt(atoms, atStart, atEnd, s, i)

\* p1 ends with an unescaped "$"
EndsAnchored(p1) ==
    /\ p1 # <<>>
    /\ p1[Len(p1)] = "$"
    /\ (Len(p1) = 1 \/ p1[Len(p1) - 1] # "\\")

TestAfterStart(p1, atStart, atEnd, s) ==
    AtomsMatch(RegExpAtoms(IF atEnd THEN Take(p1, Len(p1) - 1) ELSE p1),
               atStart, atEnd, s)

TestAnchored(p1, atStart, s) == TestAfterStart(p1, atStart, EndsAnchored(p1), s)

\* new RegExp(pattern).test(s), for a pattern that compiles
RegExpTest(p, s) ==
    TestAnchored(IF p # <<>> /\ p[1] = "^" THEN Drop(p, 1) ELSE p,
                 p # <<>> /\ p[1] = "^", s)

(***************************************************************************)
(* Dialect Matcher                                                         *)
(***************************************************************************)

\* One iteration's try block: "match", "nomatch", or the SyntaxError thrown
\* by new RegExp.
testConfig(filename, config) ==
    IF config.useRegex
    THEN IF RegExpThrows(config.pattern) THEN "SyntaxError"
         ELSE IF RegExpTest(config.pattern, filename) THEN "match"
         ELSE "nomatch"
    ELSE IF Includes(filename, config.pattern) THEN "match" ELSE "nomatch"

\* The for loop with its empty catch: an exception of one iteration is
\* swallowed and the loop goes on.  index = 0 is the null result.
RECURSIVE findFrom(_, _, _)
findFrom(filename, entries, i) ==
    IF i > Len(entries) THEN [threw |-> FALSE, index |-> 0]
    ELSE IF testConfig(filename, entries[i]) = "match"
         THEN [threw |-> FALSE, index |-> i]
    ELSE findFrom(filename, entries, i + 1)

\* A loop that returns the last match instead of the first.
RECURSIVE findLastFrom(_, _, _)
findLastFrom(filename, entries, i) ==
    IF i = 0 THEN [threw |-> FALSE, index |-> 0]
    ELSE IF testConfig(filename, entries[i]) = "match"
         THEN [threw |-> FALSE, index |-> i]
    ELSE findLastFrom(filename, entries, i - 1)

findMatchingConfig_lastWins(filename, entries) ==
    findLastFrom(filename, entries, Len(entries))

\* A loop without the try/catch: the SyntaxError leaves the function.
RECURSIVE findNoCatchFrom(_, _, _)
findNoCatchFrom(filename, entries, i) ==
    IF i > Len(entries) THEN [threw |-> FALSE, index |-> 0]
    ELSE LET r == testConfig(filename, entries[i])
         IN  IF r = "SyntaxError" THEN [threw |-> TRUE, index |-> 0]
             ELSE IF r = "match" THEN [threw |-> FALSE, index |-> i]
             ELSE findNoCatchFrom(filename, entries, i + 1)

findMatchingConfig_noCatch(filename, entries) ==
    findNoCatchFrom(filename, entries, 1)

findMatchingConfig(filename, entries) == findFrom(filename, entries, 1)

(***************************************************************************)
(* Numbers.  A decimal amount is held as an integer count of 1/AmountScale *)
(* currency units, so that 12.3456 is 123456 and the conversion to         *)
(* milliunits has something to round.                                      *)
(***************************************************************************)

\* convertToMilliunits multiplies by this
MilliunitsPerUnit == 1000

\* amounts are counted in ten-thousandths: a tenth of a milliunit
AmountScale == 10 * MilliunitsPerUnit

WhiteSpace == {" ", "\t", "\n", "\r"}

\* the least element of a non-empty set of numbers
Least(S) == CHOOSE i \in S : \A j \in S : i <= j

\* the greatest element of a non-empty set of numbers
Greatest(S) == CHOOSE i \in S : \A j \in S : j <= i

TrimStart(s) ==
    LET solid == {i \in 1..Len(s) : s[i] \notin WhiteSpace}
    IN  IF solid = {} THEN <<>> ELSE Drop(s, Least(solid) - 1)

TrimEnd(s) ==
    LET solid == {i \in 1..Len(s) : s[i] \notin WhiteSpace}
    IN  IF solid = {} THEN <<>> ELSE Take(s, Greatest(solid))

\* String.prototype.trim
Trim(s) == TrimEnd(TrimStart(s))

\* the longest prefix of s made of digits
DigitPrefix(s) ==
    LET other == {i \in 1..Len(s) : ~IsDigit(s[i])}
    IN  IF other = {} THEN s ELSE Take(s, Least(other) - 1)

RECURSIVE DigitsValue(_)
DigitsValue(ds) ==
    IF ds = <<>> THEN 0
    ELSE 10 * DigitsValue(Take(ds, Len(ds) - 1)) + DigitVal(ds[Len(ds)])

\* the fraction digits ds as a count of 1/scale (digits below the model's
\* resolution are dropped)
RECURSIVE FractionValue(_, _)
FractionValue(ds, scale) ==
    IF ds = <<>> \/ scale < 10 THEN 0
    ELSE DigitVal(ds[1]) * (scale \div 10) + FractionValue(Drop(ds, 1), scale \div 10)

\* parseFloat(s): the longest prefix of the trimmed string that is a decimal
\* literal (sign, digits, "." digits); nan when there is no such prefix.
\* Exponents and "Infinity" are not in the model's alphabet.
NaN == [nan |-> TRUE, value |-> 0]

\* the digits after a "." that follows the integer digits
FractionDigits(afterInt) ==
    IF afterInt # <<>> /\ afterInt[1] = "." THEN DigitPrefix(Drop(afterInt, 1))
    ELSE <<>>

Magnitude(int, frac) ==
    IF int = <<>> /\ frac = <<>> THEN NaN
    ELSE [nan   |-> FALSE,
          value |-> DigitsValue(int) * AmountScale + FractionValue(frac, AmountScale)]

UnsignedFloat(u, int) == Magnitude(int, FractionDigits(Drop(u, Len(int))))

parseUnsigned(u) == UnsignedFloat(u, DigitPrefix(u))

Signed(neg, r) == IF neg THEN [nan |-> r.nan, value |-> 0 - r.value] ELSE r

parseTrimmed(t) ==
    Signed(t # <<>> /\ t[1] = "-",
           parseUnsigned(IF t # <<>> /\ t[1] \in {"-", "+"} THEN Drop(t, 1) ELSE t))

parseFloat(s) == parseTrimmed(TrimStart(s))

\* r || 0 on the result of parseFloat; also isNaN(r) ? 0 : r
OrZero(r) == IF r.nan THEN 0 ELSE r.value

\* parseFloat(s) || 0
parseFloatOr0(s) == OrZero(parseFloat(s))

\* amountStr.replace(/[^0-9.-]/g, '')
IsNumericChar(c) == IsDigit(c) \/ c \in {".", "-"}

KeepNumeric(s) == SelectSeq(s, IsNumericChar)

\* converter: parseAmount
parseAmount(amountStr) ==
    IF ~Truthy(amountStr) \/ amountStr = <<"0">> THEN 0
    ELSE OrZero(parseFloat(KeepNumeric(amountStr)))

(***************************************************************************)
(* Date Normalizer                                                         *)
(***************************************************************************)

\* /^\d{4}-\d{2}-\d{2}$/
IsIsoDate(s) ==
    /\ Len(s) = 10
    /\ DigitsAt(s, 1, 4) /\ s[5] = "-"
    /\ DigitsAt(s, 6, 7) /\ s[8] = "-"
    /\ DigitsAt(s, 9, 10)

\* /^(\d{2})S(\d{2})S(\d{4})$/ with each separator in seps
IsTwoTwoFour(s, seps) ==
    /\ Len(s) = 10
    /\ DigitsAt(s, 1, 2) /\ s[3] \in seps
    /\ DigitsAt(s, 4, 5) /\ s[6] \in seps
    /\ DigitsAt(s, 7, 10)

\* /^(\d{4})(\d{2})(\d{2})$/
IsCompactDate(s) == Len(s) = 8 /\ DigitsAt(s, 1, 8)

\* /^(\d{1,2})\/(\d{1,2})\/(\d{4})$/ : the lengths <<a, b>> of the two
\* leading groups, or <<0, 0>> when the token does not match
SlashGroups(s) ==
    LET fits(a, b) ==
            /\ Len(s) = a + b + 6
            /\ DigitsAt(s, 1, a) /\ s[a + 1] = "/"
            /\ DigitsAt(s, a + 2, a + b + 1) /\ s[a + b + 2] = "/"
            /\ DigitsAt(s, a + b + 3, a + b + 6)
        hits == {ab \in {1, 2} \X {1, 2} : fits(ab[1], ab[2])}
    IN  IF hits = {} THEN <<0, 0>> ELSE CHOOSE ab \in hits : TRUE

\* str.padStart(2, '0') of a group of one or two digits
PadStart2(g) == IF Len(g) < 2 THEN <<"0">> \o g ELSE g

Iso(y, m, d) == y \o <<"-">> \o m \o <<"-">> \o d

autoDetectDate(dateStr) ==
    IF IsIsoDate(dateStr) THEN dateStr
    ELSE IF IsTwoTwoFour(dateStr, {".", "/"})
         THEN Iso(SubSeq(dateStr, 7, 10), SubSeq(dateStr, 4, 5), SubSeq(dateStr, 1, 2))
    ELSE IF SlashGroups(dateStr) # <<0, 0>>
         THEN LET a == SlashGroups(dateStr)[1]
                  b == SlashGroups(dateStr)[2]
              IN  Iso(SubSeq(dateStr, a + b + 3, a + b + 6),
                      PadStart2(SubSeq(dateStr, 1, a)),
                      PadStart2(SubSeq(dateStr, a + 2, a + b + 1)))
    ELSE IF IsCompactDate(dateStr)
         THEN Iso(SubSeq(dateStr, 1, 4), SubSeq(dateStr, 5, 6), SubSeq(dateStr, 7, 8))
    ELSE dateStr

\* the table `formats`: does the token match the regular expression of the hint
MatchesFormat(formatStr, s) ==
    CASE formatStr = "%Y-%m-%d" -> IsIsoDate(s)
      [] formatStr = "%d.%m.%Y" -> IsTwoTwoFour(s, {"."})
      [] formatStr = "%d/%m/%Y" -> IsTwoTwoFour(s, {"/"})
      [] formatStr = "%m/%d/%Y" -> IsTwoTwoFour(s, {"/"})
      [] formatStr = "%Y%m%d"   -> IsCompactDate(s)
      [] OTHER -> FALSE

\* the rearrangement parseDate makes of a token that matches its hint
Rearrange(dateStr, formatStr) ==
    CASE formatStr = "%Y-%m-%d" ->
             Iso(SubSeq(dateStr, 1, 4), SubSeq(dateStr, 6, 7), SubSeq(dateStr, 9, 10))
      [] formatStr = "%Y%m%d" ->
             Iso(SubSeq(dateStr, 1, 4), SubSeq(dateStr, 5, 6), SubSeq(dateStr, 7, 8))
      [] formatStr \in {"%d.%m.%Y", "%d/%m/%Y"} ->
             Iso(SubSeq(dateStr, 7, 10), SubSeq(dateStr, 4, 5), SubSeq(dateStr, 1, 2))
      [] formatStr = "%m/%d/%Y" ->
             Iso(SubSeq(dateStr, 7, 10), SubSeq(dateStr, 1, 2), SubSeq(dateStr, 4, 5))

\* A normalizer that rejects a token of the ISO shape whose month is not a
\* month of the calendar.
parseDate_validating(dateStr, formatStr) ==
    IF ~Truthy(dateStr) THEN <<>>
    ELSE IF IsIsoDate(dateStr)
         THEN IF DigitsValue(SubSeq(dateStr, 6, 7)) \in 1..12 THEN dateStr ELSE <<>>
    ELSE IF formatStr = "" THEN autoDetectDate(dateStr)
    ELSE IF MatchesFormat(formatStr, dateStr) THEN Rearrange(dateStr, formatStr)
    ELSE autoDetectDate(dateStr)

\* A normalizer that rejects a token that does not match its hint.
parseDate_strict(dateStr, formatStr) ==
    IF ~Truthy(dateStr) THEN <<>>
    ELSE IF IsIsoDate(dateStr) THEN dateStr
    ELSE IF formatStr = "" THEN autoDetectDate(dateStr)
    ELSE IF MatchesFormat(formatStr, dateStr) THEN Rearrange(dateStr, formatStr)
    ELSE <<>>

\* formatStr = "" stands for an absent hint
parseDate(dateStr, formatStr) ==
    IF ~Truthy(dateStr) THEN <<>>
    ELSE IF IsIsoDate(dateStr) THEN dateStr
    ELSE IF formatStr = "" THEN autoDetectDate(dateStr)
    ELSE IF MatchesFormat(formatStr, dateStr)
         THEN CASE formatStr = "%Y-%m-%d" ->
                       Iso(SubSeq(dateStr, 1, 4), SubSeq(dateStr, 6, 7), SubSeq(dateStr, 9, 10))
                [] formatStr = "%Y%m%d" ->
                       Iso(SubSeq(dateStr, 1, 4), SubSeq(dateStr, 5, 6), SubSeq(dateStr, 7, 8))
                [] formatStr \in {"%d.%m.%Y", "%d/%m/%Y"} ->
                       Iso(SubSeq(dateStr, 7, 10), SubSeq(dateStr, 4, 5), SubSeq(dateStr, 1, 2))
                [] formatStr = "%m/%d/%Y" ->
                       Iso(SubSeq(dateStr, 7, 10), SubSeq(dateStr, 1, 2), SubSeq(dateStr, 4, 5))
    ELSE autoDetectDate(dateStr)

(***************************************************************************)
(* Sanitizer                                                               *)
(***************************************************************************)

\* [\x00-\x08\x0B\x0C\x0E-\x1F\x7F] in caret notation
ControlChars ==
    {"^@", "^A", "^B", "^C", "^D", "^E", "^F", "^G", "^H", "^K", "^L",
     "^N", "^O", "^P", "^Q", "^R", "^S", "^T", "^U", "^V", "^W", "^X",
     "^Y", "^Z", "^[", "^\\", "^]", "^^", "^_", "^?"}

NotControl(c) == c \notin ControlChars

StripControl(s) == SelectSeq(s, NotControl)

\* default cap of sanitizeString (payee names)
PayeeMaxLength == 200

\* cap passed for memos
MemoMaxLength == 100

\* if (cleaned.length > maxLength) cleaned = cleaned.substring(0, maxLength)
Limit(cleaned, maxLength) ==
    IF Len(cleaned) > maxLength THEN Take(cleaned, maxLength) ELSE cleaned

\* cleaned || null
OrNull(cleaned) == IF cleaned = <<>> THEN NULL ELSE cleaned

sanitizeString(str, maxLength) ==
    IF ~Truthy(str) THEN NULL
    ELSE OrNull(Limit(Trim(StripControl(str)), maxLength))

(***************************************************************************)
(* csv-parse.  A file's content is a sequence of lines as split at "\n";   *)
(* a line is the sequence of its fields as split at the delimiter, and the *)
(* empty line is <<>>.  A content that ends with a line terminator has a   *)
(* last line <<>>.                                                         *)
(***************************************************************************)

NonEmptyLine(line) == line # <<>>

TrimFields(line) == [i \in 1..Len(line) |-> Trim(line[i])]

\* parse(text, {skip_empty_lines: true, trim: true}): the records
CsvRecords(lines) ==
    LET kept == SelectSeq(lines, NonEmptyLine)
    IN  [i \in 1..Len(kept) |-> TrimFields(kept[i])]

\* Array.prototype.slice(start, end > 0 ? -end : undefined)
SliceLines(lines, headerRows, footerRows) ==
    LET n     == Len(lines)
        start == IF headerRows > n THEN n ELSE headerRows
        end   == IF footerRows > 0
                 THEN (IF n - footerRows < 0 THEN 0 ELSE n - footerRows)
                 ELSE n
    IN  IF start >= end THEN <<>> ELSE SubSeq(lines, start + 1, end)

(***************************************************************************)
(* Record Normalizer and CSV Dialect Parser: matched dialects              *)
(***************************************************************************)

\* A mapped position beyond the end of the row reads the row's last column.
RawField_clamped(row, columnMapping, field) ==
    LET at == {i \in 1..Len(columnMapping) :
                  columnMapping[i] = field /\ field # "" /\ field # "skip"}
    IN  IF at = {} \/ Len(row) = 0 THEN NULL
        ELSE row[IF Greatest(at) <= Len(row) THEN Greatest(at) ELSE Len(row)]

\* the value of transaction[field] after the forEach over columnMapping: the
\* last mapped column named field that the row has, else undefined
RawField(row, columnMapping, field) ==
    LET at == {i \in 1..Len(columnMapping) :
                  /\ columnMapping[i] = field
                  /\ field # "" /\ field # "skip"
                  /\ i <= Len(row)}
    IN  IF at = {} THEN NULL
        ELSE row[CHOOSE i \in at : \A j \in at : j <= i]

\* a || b on string-or-undefined values
OrElse(a, b) == IF Truthy(a) THEN a ELSE b

\* A row's amount read from the Amount column whenever the row has one.
rowAmount_amountFirst(inflowStr, outflowStr, amountStr) ==
    IF Truthy(amountStr) THEN parseFloatOr0(amountStr)
    ELSE parseFloatOr0(OrElse(inflowStr, <<"0">>))
             - parseFloatOr0(OrElse(outflowStr, <<"0">>))

\* the amount of one mapped row
rowAmount(inflowStr, outflowStr, amountStr) ==
    IF Truthy(inflowStr) \/ Truthy(outflowStr)
    THEN LET inflow  == parseFloatOr0(OrElse(inflowStr, <<"0">>))
             outflow == parseFloatOr0(OrElse(outflowStr, <<"0">>))
         IN  inflow - outflow
    ELSE IF Truthy(amountStr) THEN parseFloatOr0(amountStr)
    ELSE 0

\* the body of records.map: one record to one Transaction
mapBankRow(row, bankConfig) ==
    LET cols == bankConfig.columns
        F(name) == RawField(row, cols, name)
    IN  [date          |-> parseDate(OrElse(F("Date"), <<>>), bankConfig.dateFormat),
         payee_name    |-> sanitizeString(OrElse(F("Payee"), OrElse(F("Description"), NULL)),
                                          PayeeMaxLength),
         category_name |-> NULL,
         memo          |-> sanitizeString(OrElse(F("Memo"), OrElse(F("Subject"), NULL)),
                                          MemoMaxLength),
         amount        |-> rowAmount(F("Inflow"), F("Outflow"), F("Amount"))]

\* the predicate of the final filter (no row maps to null: nothing in the
\* try block throws on an array of strings)
KeepTransaction(t) == t.date # <<>>

NoError == [kind |-> "none", message |-> "", line |-> 0]

\* records.map(...).filter(...)
mapBankRecords(records, bankConfig) ==
    [i \in 1..Len(records) |-> mapBankRow(records[i], bankConfig)]

Parsed(error, records, mapped, transactions) ==
    [error |-> error, records |-> records, mapped |-> mapped,
     transactions |-> transactions]

\* the places of mapped whose Transaction occurs at no earlier place
FirstOccurrences(mapped) ==
    {i \in 1..Len(mapped) : \A j \in 1..(i - 1) : mapped[j] # mapped[i]}

\* the members of a set of places, in increasing order
RECURSIVE Ascending(_)
Ascending(places) ==
    IF places = {} THEN <<>>
    ELSE <<Least(places)>> \o Ascending(places \ {Least(places)})

\* A filter that also leaves out a Transaction equal to an earlier one.
filterBankRecords_distinct(records, mapped) ==
    Parsed(NoError, records, mapped,
           SelectSeq([k \in 1..Cardinality(FirstOccurrences(mapped)) |->
                         mapped[Ascending(FirstOccurrences(mapped))[k]]],
                     KeepTransaction))

filterBankRecords(records, mapped) ==
    Parsed(NoError, records, mapped, SelectSeq(mapped, KeepTransaction))

parseBankRecords(records, bankConfig) ==
    filterBankRecords(records, mapBankRecords(records, bankConfig))

parseBank2YnabCSV(lines, bankConfig) ==
    parseBankRecords(
        CsvRecords(SliceLines(lines, bankConfig.headerRows, bankConfig.footerRows)),
        bankConfig)

(***************************************************************************)
(* Record Normalizer and CSV Dialect Parser: the generic (YNAB) dialect    *)
(***************************************************************************)

cDate == <<"D", "a", "t", "e">>

cPayee == <<"P", "a", "y", "e", "e">>

cCategory == <<"C", "a", "t", "e", "g", "o", "r", "y">>

cMemo == <<"M", "e", "m", "o">>

cOutflow == <<"O", "u", "t", "f", "l", "o", "w">>

cInflow == <<"I", "n", "f", "l", "o", "w">>

sTempPrefix == <<"y", "n", "a", "b", "-">>

\* row[name] of a record parsed with columns: true
Column(row, header, name) ==
    LET at == {i \in 1..Len(header) : header[i] = name /\ i <= Len(row)}
    IN  IF at = {} THEN NULL
        ELSE row[CHOOSE i \in at : \A j \in at : j <= i]

\* the body of records.map for a row that has a Date
mapYnabRow(row, header) ==
    LET outflow == parseAmount(Column(row, header, cOutflow))
        inflow  == parseAmount(Column(row, header, cInflow))
    IN  [date          |-> Column(row, header, cDate),
         payee_name    |-> OrElse(Column(row, header, cPayee), NULL),
         category_name |-> OrElse(Column(row, header, cCategory), NULL),
         memo          |-> OrElse(Column(row, header, cMemo), NULL),
         amount        |-> inflow - outflow]

Failed(kind, message, line, records) ==
    Parsed([kind |-> kind, message |-> message, line |-> line], records, <<>>, <<>>)

mapYnabRecords(header, records) ==
    [i \in 1..Len(records) |-> mapYnabRow(records[i], header)]

\* the rows whose Date is empty or missing
Undated(header, records) ==
    {i \in 1..Len(records) : ~Truthy(Column(records[i], header, cDate))}

\* A map that leaves the rows without a Date out instead of throwing.
mapOrThrow_skipUndated(header, records, undated, mapped) ==
    Parsed(NoError, records, mapped,
           [i \in 1..(Len(mapped) - Cardinality(undated)) |->
               mapped[Least({k \in 1..Len(mapped) :
                   Cardinality({m \in 1..k : m \notin undated}) = i /\ k \notin undated})]])

\* records.map: the first row without a Date throws
mapOrThrow(header, records, undated, mapped) ==
    IF undated # {}
    THEN Failed("CsvParseError", "Date is required", Least(undated) + 1, records)
    ELSE Parsed(NoError, records, mapped, mapped)

\* csv-parse without relax_column_count: a record whose field count differs
\* from the header's is an error of the whole parse
Ragged(header, records) ==
    {i \in 1..Len(records) : Len(records[i]) # Len(header)}

parseYnabRecords(header, records, ragged) ==
    IF ragged # {}
    THEN Failed("CsvError", "Invalid Record Length", 1 + Least(ragged), records)
    ELSE IF Len(records) = 0
    THEN Failed("CsvParseError", "CSV file contains no data rows", 0, records)
    ELSE mapOrThrow(header, records, Undated(header, records),
                    mapYnabRecords(header, records))

parseYnabLines(all) ==
    IF all = <<>>
    THEN Failed("CsvParseError", "CSV file contains no data rows", 0, <<>>)
    ELSE parseYnabRecords(all[1], Drop(all, 1), Ragged(all[1], Drop(all, 1)))

parseYnabCSV(lines) == parseYnabLines(CsvRecords(lines))

(***************************************************************************)
(* parseCSV                                                                *)
(***************************************************************************)

\* path.basename
RECURSIVE Basename(_)
Basename(path) ==
    IF \E i \in 1..Len(path) : path[i] = "/"
    THEN Basename(Drop(path, CHOOSE i \in 1..Len(path) : path[i] = "/"))
    ELSE path

StartsWith(s, prefix) == Len(s) >= Len(prefix) /\ Take(s, Len(prefix)) = prefix

\* a variation: everything after the last dash
StripTempPrefix_lastDash(filename) ==
    LET dashes == {i \in 1..Len(filename) : filename[i] = "-"}
        second == {i \in dashes : \E j \in dashes : j < i}
    IN  IF StartsWith(filename, sTempPrefix) /\ second # {}
        THEN Drop(filename, CHOOSE i \in second : \A j \in second : i >= j)
        ELSE filename

\* filename.split('-').slice(2).join('-') when there are three parts or more
StripTempPrefix(filename) ==
    LET dashes == {i \in 1..Len(filename) : filename[i] = "-"}
        second == {i \in dashes : \E j \in dashes : j < i}
    IN  IF StartsWith(filename, sTempPrefix) /\ second # {}
        THEN Drop(filename, CHOOSE i \in second : \A j \in second : i <= j)
        ELSE filename

\* the filename the dialect is matched against
EffectiveFilename(filePath, originalFilename) ==
    IF Truthy(originalFilename) THEN originalFilename
    ELSE StripTempPrefix(Basename(filePath))

parseWith(filename, index, lines, result) ==
    [filename     |-> filename,
     dialect      |-> index,
     lines        |-> lines,
     error        |-> result.error,
     records      |-> result.records,
     mapped       |-> result.mapped,
     transactions |-> result.transactions]

parseMatched(filename, index, lines, registry) ==
    parseWith(filename, index, lines,
              IF index # 0 THEN parseBank2YnabCSV(lines, registry[index])
              ELSE parseYnabCSV(lines))

parseNamed(filename, lines, registry) ==
    parseMatched(filename, findMatchingConfig(filename, registry).index, lines, registry)

parseCSV(filePath, originalFilename, lines, registry) ==
    parseNamed(EffectiveFilename(filePath, originalFilename), lines, registry)

\* the text of a line: its fields with the delimiter between them
RECURSIVE LineText(_)
LineText(line) ==
    IF Len(line) = 0 THEN <<>>
    ELSE IF Len(line) = 1 THEN line[1]
    ELSE line[1] \o <<",">> \o LineText(Tail(line))

sDateLower == <<"d", "a", "t", "e">>

sFileIsEmpty == "CSV file is empty"

sMissingDate == "Invalid CSV format. Missing Date column"

\* validateCSV(filePath) on a file with the given content: the error it
\* throws, NoError when it returns
validateCSVError(lines) ==
    IF Len(lines) = 0
    THEN [kind |-> "CsvParseError", message |-> sFileIsEmpty, line |-> 1]
    ELSE IF Includes(toLowerCase(LineText(lines[1])), sDateLower) THEN NoError
    ELSE [kind |-> "CsvParseError", message |-> sMissingDate, line |-> 1]

\* validateCSV(filePath) on a file with the given content: "ok" when it
\* returns, else the class of the error it throws
validateCSV(lines) ==
    IF Len(lines) = 0 THEN "CsvParseError"
    ELSE IF Includes(toLowerCase(LineText(lines[1])), sDateLower) THEN "ok"
    ELSE "CsvParseError"

(***************************************************************************)
(* Deduplication-Key Generator and Upload Orchestrator                     *)
(***************************************************************************)

\* amount * 1000 cut off at the decimal point
convertToMilliunits_truncating(amount) ==
    LET q == AmountScale \div MilliunitsPerUnit
    IN  IF amount >= 0 THEN amount \div q ELSE -((-amount) \div q)

\* Math.round(amount * 1000): to the nearest integer, halves upwards
convertToMilliunits(amount) ==
    LET q == AmountScale \div MilliunitsPerUnit
    IN  (2 * amount + q) \div (2 * q)

\* `${payee_name || ''}:${memo || ''}`
UniqueData(payee, memo) == OrElse(payee, <<>>) \o <<":">> \o OrElse(memo, <<>>)

sStoreA == <<"S", "t", "o", "r", "e", " ", "A">>

sStoreB == <<"S", "t", "o", "r", "e", " ", "B">>

sTwint == <<"T", "W", "I", "N", "T">>

sCafe == <<"C", "a", "f", "e">>

sCafeBel == <<"C", "a", "f", "^G", "e">>

sCafeRaw == <<" ", "C", "a", "f", "^G", "e", " ">>

sGroceries == <<"g", "r", "o", "c", "e", "r", "i", "e", "s">>

sWeekly == <<"W", "e", "e", "k", "l", "y">>

sFood == <<"F", "o", "o", "d">>

dIso15 == <<"2", "0", "2", "5", "-", "0", "1", "-", "1", "5">>

dIso16 == <<"2", "0", "2", "5", "-", "0", "1", "-", "1", "6">>

dIso17 == <<"2", "0", "2", "5", "-", "0", "1", "-", "1", "7">>

dDots == <<"1", "5", ".", "0", "1", ".", "2", "0", "2", "4">>

dSlash == <<"0", "1", "/", "1", "5", "/", "2", "0", "2", "4">>

dLong == <<"1", "5", " ", "J", "a", "n", "u", "a", "r", "y", " ", "2", "0", "2", "5", " ", "a", "t", " ", "n", "o", "o", "n">>

a50 == <<"5", "0", ".", "0", "0">>

a0 == <<"0">>

a3000 == <<"3", "0", "0", "0", ".", "0", "0">>

a10 == <<"1", "0">>

a5 == <<"5">>

aDollar == <<"$", "1", ",", "2", "3", "4", ".", "5", "6">>

aMinus80 == <<"-", "8", "0", ".", "0", "0">>

a7 == <<"7">>

sTotal == <<"T", "o", "t", "a", "l", ":", " ", "3">>

pNeon == <<"n", "e", "o", "n">>

pUbs == <<"^", "u", "b", "s">>

pCsv == <<"\\", ".", "c", "s", "v", "$">>

pBad == <<"[", "i", "n", "v", "a", "l", "i", "d", "(", "r", "e", "g", "e", "x">>

fNeon == <<"n", "e", "o", "n", ".", "c", "s", "v">>

fUbs == <<"u", "b", "s", "_", "2", "0", "2", "5", ".", "c", "s", "v">>

fMine == <<"m", "i", "n", "e", ".", "t", "x", "t">>

fUbsNeon == <<"u", "b", "s", "_", "n", "e", "o", "n", ".", "c", "s", "v">>

tmpNeon == <<"/", "t", "m", "p", "/", "y", "n", "a", "b", "-", "1", "a", "2", "b", "-", "n", "e", "o", "n", ".", "c", "s", "v">>

tmpMine == <<"/", "t", "m", "p", "/", "y", "n", "a", "b", "-", "1", "a", "2", "b", "-", "m", "i", "n", "e", ".", "t", "x", "t">>

pathUbs == <<"/", "h", "o", "m", "e", "/", "m", "e", "/", "u", "b", "s", "_", "2", "0", "2", "5", ".", "c", "s", "v">>
sLongPayee == Repeat("A", 250)

sStore284 == <<"S", "t", "o", "r", "e", " ", "2", "8", "4">>

sStore318 == <<"S", "t", "o", "r", "e", " ", "3", "1", "8">>

sCoop == <<"C", "o", "o", "p">>

sCoopCity == <<"C", "o", "o", "p", ":", "C", "i", "t", "y">>

sCityLunch == <<"C", "i", "t", "y", ":", "L", "u", "n", "c", "h">>

sLunch == <<"L", "u", "n", "c", "h">>

sLongMemo == Repeat("M", 150)

\* parseInt(sha256(uniqueData).digest('hex').slice(-4), 16): the SHA-256
\* values of the texts the model's files and batches contain
Sha256Last4(uniqueData) ==
    CASE uniqueData = UniqueData(<<>>, <<>>) -> 14951
      [] uniqueData = UniqueData(<<>>, sGroceries) -> 22862
      [] uniqueData = UniqueData(<<>>, sWeekly) -> 38780
      [] uniqueData = UniqueData(<<>>, sLongMemo) -> 48580
      [] uniqueData = UniqueData(<<>>, Take(sLongMemo, MemoMaxLength)) -> 1639
      [] uniqueData = UniqueData(sStoreA, <<>>) -> 17820
      [] uniqueData = UniqueData(sStoreA, sGroceries) -> 6814
      [] uniqueData = UniqueData(sStoreA, sWeekly) -> 62960
      [] uniqueData = UniqueData(sStoreA, sLongMemo) -> 26983
      [] uniqueData = UniqueData(sStoreA, Take(sLongMemo, MemoMaxLength)) -> 6574
      [] uniqueData = UniqueData(sStoreB, <<>>) -> 31424
      [] uniqueData = UniqueData(sStoreB, sGroceries) -> 37300
      [] uniqueData = UniqueData(sStoreB, sWeekly) -> 21914
      [] uniqueData = UniqueData(sStoreB, sLongMemo) -> 52042
      [] uniqueData = UniqueData(sStoreB, Take(sLongMemo, MemoMaxLength)) -> 33574
      [] uniqueData = UniqueData(sTwint, <<>>) -> 63427
      [] uniqueData = UniqueData(sTwint, sGroceries) -> 41173
      [] uniqueData = UniqueData(sTwint, sWeekly) -> 59812
      [] uniqueData = UniqueData(sTwint, sLongMemo) -> 55933
      [] uniqueData = UniqueData(sTwint, Take(sLongMemo, MemoMaxLength)) -> 49985
      [] uniqueData = UniqueData(sCafe, <<>>) -> 4438
      [] uniqueData = UniqueData(sCafe, sGroceries) -> 54404
      [] uniqueData = UniqueData(sCafe, sWeekly) -> 14940
      [] uniqueData = UniqueData(sCafe, sLongMemo) -> 60693
      [] uniqueData = UniqueData(sCafe, Take(sLongMemo, MemoMaxLength)) -> 57671
      [] uniqueData = UniqueData(sCafeBel, <<>>) -> 39565
      [] uniqueData = UniqueData(sCafeBel, sGroceries) -> 60486
      [] uniqueData = UniqueData(sCafeBel, sWeekly) -> 5484
      [] uniqueData = UniqueData(sCafeBel, sLongMemo) -> 24935
      [] uniqueData = UniqueData(sCafeBel, Take(sLongMemo, MemoMaxLength)) -> 48568
      [] uniqueData = UniqueData(sLongPayee, <<>>) -> 38527
      [] uniqueData = UniqueData(sLongPayee, sGroceries) -> 62959
      [] uniqueData = UniqueData(sLongPayee, sWeekly) -> 24413
      [] uniqueData = UniqueData(sLongPayee, sLongMemo) -> 45693
      [] uniqueData = UniqueData(sLongPayee, Take(sLongMemo, MemoMaxLength)) -> 18917
      [] uniqueData = UniqueData(Take(sLongPayee, PayeeMaxLength), <<>>) -> 13970
      [] uniqueData = UniqueData(Take(sLongPayee, PayeeMaxLength), sGroceries) -> 56803
      [] uniqueData = UniqueData(Take(sLongPayee, PayeeMaxLength), sWeekly) -> 39490
      [] uniqueData = UniqueData(Take(sLongPayee, PayeeMaxLength), sLongMemo) -> 12157
      [] uniqueData = UniqueData(Take(sLongPayee, PayeeMaxLength), Take(sLongMemo, MemoMaxLength)) -> 25449
      [] uniqueData = UniqueData(sStore284, <<>>) -> 25748
      [] uniqueData = UniqueData(sStore318, <<>>) -> 25748
      [] uniqueData = UniqueData(sCoop, sCityLunch) -> 2585
      [] uniqueData = UniqueData(sCoop, sLunch) -> 23312

sYnabPrefix == <<"Y", "N", "A", "B", ":">>

generateImportId(transaction) ==
    sYnabPrefix \o NumberToString(convertToMilliunits(transaction.amount))
        \o <<":">> \o transaction.date \o <<":">>
        \o NumberToString(Sha256Last4(UniqueData(transaction.payee_name,
                                                 transaction.memo)))

\* An account-scoped key: the import id also carries the target account.
ynabTransaction_accountScoped(tx, accountId) ==
    [account_id |-> accountId,
     date       |-> tx.date,
     amount     |-> convertToMilliunits(tx.amount),
     payee_name |-> OrElse(tx.payee_name, NULL),
     memo       |-> OrElse(tx.memo, NULL),
     cleared    |-> "uncleared",
     approved   |-> FALSE,
     import_id  |-> generateImportId(tx) \o <<":", accountId>>]

\* An entry submitted without an import id.
ynabTransaction_noImportId(tx, accountId) ==
    [account_id |-> accountId,
     date       |-> tx.date,
     amount     |-> convertToMilliunits(tx.amount),
     payee_name |-> OrElse(tx.payee_name, NULL),
     memo       |-> OrElse(tx.memo, NULL),
     cleared    |-> "uncleared",
     approved   |-> FALSE,
     import_id  |-> NULL]

\* the callback of transactions.map
ynabTransaction(tx, accountId) ==
    [account_id |-> accountId,
     date       |-> tx.date,
     amount     |-> convertToMilliunits(tx.amount),
     payee_name |-> OrElse(tx.payee_name, NULL),
     memo       |-> OrElse(tx.memo, NULL),
     cleared    |-> "uncleared",
     approved   |-> FALSE,
     import_id  |-> generateImportId(tx)]

\* An API call fails as the fault says: at |-> the call, kind |-> "api" (the
\* client rejects with {error: {detail}}) or "network" (any other exception).
NoFault == [at |-> "none", kind |-> "none"]

Thrown(fault) ==
    IF fault.kind = "api" THEN "ApiErrorObject" ELSE "NetworkError"

\* an id that needs no lookup
Resolved(id) ==
    [ok |-> TRUE, id |-> id, calls |-> <<>>, error |-> "none", listed |-> <<>>,
     failed |-> NoFault]

\* the outcome of a lookup that made one service call; listed holds the ids
\* an error message enumerates, failed the fault of a service call that threw
Lookup(ok, id, call, error) ==
    [ok |-> ok, id |-> id, calls |-> <<call>>, error |-> error, listed |-> <<>>,
     failed |-> NoFault]

\* throw new Error('Multiple ... found ...' + the list of the candidates)
Ambiguous(call, error, listed) ==
    [Lookup(FALSE, "", call, error) EXCEPT !.listed = listed]

\* the service call itself threw
Broke(call, fault) ==
    [Lookup(FALSE, "", call, Thrown(fault)) EXCEPT !.failed = fault]

\* the choice among the budgets the service lists
onlyBudget(budgets) ==
    IF Len(budgets) = 0 THEN Lookup(FALSE, "", "getBudgets", "Error: No budgets found")
    ELSE IF Len(budgets) = 1 THEN Lookup(TRUE, budgets[1], "getBudgets", "none")
    ELSE Ambiguous("getBudgets", "Error: Multiple budgets found", budgets)

\* getBudgetId: "" is a null id
getBudgetId(config, service, fault) ==
    IF config.budgetId # "" THEN Resolved(config.budgetId)
    ELSE IF fault.at = "getBudgets" THEN Broke("getBudgets", fault)
    ELSE onlyBudget(service.budgets)

IsOpen(account) == ~account.closed

\* the accounts the service lists for a budget (none for an unknown budget)
AccountsOf(service, budgetId) ==
    IF budgetId \in DOMAIN service.accounts THEN service.accounts[budgetId] ELSE <<>>

\* the choice among the open accounts
onlyAccount(accounts) ==
    IF Len(accounts) = 0
    THEN Lookup(FALSE, "", "getAccounts", "Error: No open accounts found")
    ELSE IF Len(accounts) = 1 THEN Lookup(TRUE, accounts[1].id, "getAccounts", "none")
    ELSE Ambiguous("getAccounts", "Error: Multiple accounts found",
                   [i \in 1..Len(accounts) |-> accounts[i].id])

\* A lookup that offers the closed accounts too.
getAccountId_withClosed(budgetId, config, service, fault) ==
    IF config.accountId # "" THEN Resolved(config.accountId)
    ELSE IF fault.at = "getAccounts" THEN Broke("getAccounts", fault)
    ELSE onlyAccount(AccountsOf(service, budgetId))

getAccountId(budgetId, config, service, fault) ==
    IF config.accountId # "" THEN Resolved(config.accountId)
    ELSE IF fault.at = "getAccounts" THEN Broke("getAccounts", fault)
    ELSE onlyAccount(SelectSeq(AccountsOf(service, budgetId), IsOpen))

\* The service's create-transactions endpoint: an entry whose import id is
\* already recorded for its account is reported as a duplicate and dropped,
\* entries being taken in order.
Response(recorded, created, duplicate_import_ids) ==
    [recorded |-> recorded, created |-> created,
     duplicate_import_ids |-> duplicate_import_ids]

EntryKey(budgetId, entry) == <<budgetId, entry.account_id, entry.import_id>>

\* an entry without an import id is never matched against earlier ones
IsDuplicate(budgetId, entry, recorded) ==
    entry.import_id # NULL /\ EntryKey(budgetId, entry) \in recorded

Record(budgetId, entry, recorded) ==
    IF entry.import_id = NULL THEN recorded
    ELSE recorded \cup {EntryKey(budgetId, entry)}

\* the response to the rest of the batch, with the first entry accounted for
WithEntry(entry, dup, rest) ==
    Response(rest.recorded,
             rest.created + (IF dup THEN 0 ELSE 1),
             (IF dup THEN <<entry.import_id>> ELSE <<>>) \o rest.duplicate_import_ids)

RECURSIVE createTransactions(_, _, _)
createTransactions(budgetId, batch, recorded) ==
    IF batch = <<>> THEN Response(recorded, 0, <<>>)
    ELSE WithEntry(batch[1], IsDuplicate(budgetId, batch[1], recorded),
                   createTransactions(budgetId, Drop(batch, 1),
                                      Record(budgetId, batch[1], recorded)))

\* the arguments of one uploadTransactions call
Request(transactions, config, accountIdOverride, budgetIdOverride) ==
    [transactions |-> transactions, config |-> config,
     accountIdOverride |-> accountIdOverride, budgetIdOverride |-> budgetIdOverride]

\* what a call did: its arguments, the ids it resolved, the batch it built,
\* the service calls it made in order, and its result or the error it threw
Call(req, budgetId, accountId, batch, calls, outcome, error, imported, duplicates) ==
    [transactions |-> req.transactions, config |-> req.config,
     accountIdOverride |-> req.accountIdOverride,
     budgetIdOverride |-> req.budgetIdOverride,
     budgetId |-> budgetId, accountId |-> accountId, batch |-> batch, calls |-> calls,
     outcome |-> outcome, error |-> error, imported |-> imported,
     duplicates |-> duplicates, listed |-> <<>>, failed |-> NoFault]

\* the call a failed lookup ends: the error of the lookup is the call's
Rejected(call, lookup) ==
    [call EXCEPT !.listed = lookup.listed, !.failed = lookup.failed]

\* the call a throwing createTransactions ends
Failing(call, fault) == [call EXCEPT !.failed = fault]

Outcome(call, recorded) == [call |-> call, recorded |-> recorded]

\* the return statement of the try block
Completed(req, b, a, batch, calls, response) ==
    Outcome(Call(req, b.id, a.id, batch, calls, "ok", "none", response.created,
                 Len(response.duplicate_import_ids)),
            response.recorded)

\* what the catch block throws for what createTransactions threw
Caught(fault) == IF fault.kind = "api" THEN "YnabApiError" ELSE Thrown(fault)

\* A try block that submits the batch a second time when the first call throws.
submitBatch_retry(req, service, fault, b, a, batch, calls) ==
    IF fault.at = "createTransactions"
    THEN Completed(req, b, a, batch, calls \o <<"createTransactions">>,
                   createTransactions(b.id, batch, service.recorded))
    ELSE Completed(req, b, a, batch, calls,
                   createTransactions(b.id, batch, service.recorded))

\* the try block around createTransactions
submitBatch(req, service, fault, b, a, batch, calls) ==
    IF fault.at = "createTransactions"
    THEN Outcome(Failing(Call(req, b.id, a.id, batch, calls, "error", Caught(fault),
                              0, 0),
                         fault),
                 service.recorded)
    ELSE Completed(req, b, a, batch, calls,
                   createTransactions(b.id, batch, service.recorded))

uploadToAccount(req, service, fault, b, a) ==
    IF ~a.ok
    THEN Outcome(Rejected(Call(req, b.id, "", <<>>, b.calls \o a.calls, "error",
                               a.error, 0, 0),
                          a),
                 service.recorded)
    ELSE submitBatch(req, service, fault, b, a,
                     [i \in 1..Len(req.transactions) |->
                         ynabTransaction(req.transactions[i], a.id)],
                     b.calls \o a.calls \o <<"createTransactions">>)

uploadToBudget(req, service, fault, b) ==
    IF ~b.ok
    THEN Outcome(Rejected(Call(req, "", "", <<>>, b.calls, "error", b.error, 0, 0), b),
                 service.recorded)
    ELSE uploadToAccount(req, service, fault, b,
                         IF req.accountIdOverride # ""
                         THEN Resolved(req.accountIdOverride)
                         ELSE getAccountId(b.id, req.config, service, fault))

\* uploadTransactions: the call's record and the service's entries after it
uploadTransactions(transactions, config, accountIdOverride, budgetIdOverride, service, fault) ==
    uploadToBudget(Request(transactions, config, accountIdOverride, budgetIdOverride),
                   service, fault,
                   IF budgetIdOverride # "" THEN Resolved(budgetIdOverride)
                   ELSE getBudgetId(config, service, fault))

(***************************************************************************)
(* Inputs of the model                                                     *)
(***************************************************************************)

\* longest registry drawn for the matcher
MaxConfigs == 3

\* most data rows in a file
MaxRows == 2

\* most transactions in a batch handed straight to the uploader
MaxBatch == 2

\* most distinct upload calls remembered in history
MaxUploads == 2

\* all sequences over S of length at most n
RECURSIVE SeqsUpTo(_, _)
SeqsUpTo(S, n) ==
    IF n = 0 THEN {<<>>}
    ELSE LET shorter == SeqsUpTo(S, n - 1)
         IN  shorter \cup {Append(s, x) : s \in {t \in shorter : Len(t) = n - 1}, x \in S}

BankConfig(name, pattern, useRegex, headerRows, footerRows, columns, dateFormat) ==
    [name |-> name, pattern |-> pattern, useRegex |-> useRegex, delimiter |-> ",",
     headerRows |-> headerRows, footerRows |-> footerRows, columns |-> columns,
     dateFormat |-> dateFormat]

cfgNeon ==
    BankConfig("CH Neon", pNeon, FALSE, 1, 0,
               <<"Date", "Payee", "skip", "Memo", "Outflow", "Inflow">>, "%d.%m.%Y")

cfgUbs ==
    BankConfig("CH UBS", pUbs, TRUE, 1, 1,
               <<"Date", "Description", "Amount", "Subject", "Outflow", "Inflow">>, "")

cfgCsv ==
    BankConfig("Any CSV", pCsv, TRUE, 1, 0, <<"Date", "Payee", "Amount">>, "%Y-%m-%d")

cfgBad ==
    BankConfig("Bad Regex Bank", pBad, TRUE, 1, 0, <<"Date">>, "")

\* a section without a filename pattern is loaded with pattern ''
cfgNoPattern ==
    BankConfig("No Pattern", <<>>, FALSE, 1, 0, <<"Date", "Payee", "Amount">>, "")

ConfigPool == {cfgNeon, cfgUbs, cfgCsv, cfgBad, cfgNoPattern}

Registries == SeqsUpTo(ConfigPool, MaxConfigs)

\* the registry the parser runs with
BundledConfigs == <<cfgBad, cfgNeon, cfgUbs>>

Filenames == {fNeon, fUbs, fMine, fUbsNeon}

\* data rows: Date, Payee, Category, Memo, Outflow, Inflow
rowStoreA   == <<dIso15, sStoreA, sFood, sGroceries, a50, <<>>>>

rowSalary   == <<dIso16, <<>>, <<>>, sWeekly, a0, a3000>>

rowNoDate   == <<<<>>, sStoreB, <<>>, <<>>, a10, a5>>

rowDots     == <<dDots, sLongPayee, <<>>, sLongMemo, aDollar, <<>>>>

rowSlash    == <<dSlash, sCafeRaw, <<>>, <<>>, <<>>, aMinus80>>

rowSigned   == <<dIso15, sTwint, aMinus80, <<>>, <<>>, <<>>>>

rowMixed    == <<dIso17, sStoreA, a7, <<>>, a10, a5>>

rowLongDate == <<dLong, sStoreA, <<>>, sGroceries, a50, <<>>>>

rowShort    == <<dIso17, sStoreB>>

Rows == {rowStoreA, rowSalary, rowNoDate, rowDots, rowSlash, rowSigned,
         rowMixed, rowLongDate, rowShort}

headerYnab == <<cDate, cPayee, cCategory, cMemo, cOutflow, cInflow>>

\* a file: the header line, the data rows, then maybe a footer line, and
\* maybe a final line terminator
FileLines(rows, footer, newline) ==
    <<headerYnab>> \o rows
        \o (IF footer THEN <<<<sTotal>>>> ELSE <<>>)
        \o (IF newline THEN <<<<>>>> ELSE <<>>)

Files ==
    {FileLines(rows, footer, newline) :
        rows \in SeqsUpTo(Rows, MaxRows), footer \in BOOLEAN, newline \in BOOLEAN}

\* the header in capitals: DATE,PAYEE,CATEGORY,MEMO,OUTFLOW,INFLOW
headerUpper == [i \in 1..Len(headerYnab) |-> toUpperCase(headerYnab[i])]

\* files of complete rows under the header in capitals
RecasedFiles ==
    {<<headerUpper>> \o rows : rows \in SeqsUpTo({rowStoreA, rowSalary}, MaxRows)}

\* <<filePath, originalFilename>> as the CLI and the server pass them
ParseArgs ==
    {<<tmpNeon, NULL>>, <<tmpMine, fUbs>>, <<tmpMine, NULL>>, <<pathUbs, NULL>>,
     <<tmpNeon, fMine>>}

dIsoOdd == <<"2", "0", "2", "4", "-", "1", "3", "-", "4", "5">>

dSlashDay == <<"1", "5", "/", "0", "1", "/", "2", "0", "2", "4">>

dSlashLow == <<"0", "5", "/", "0", "6", "/", "2", "0", "2", "4">>

dSlashHigh == <<"1", "3", "/", "1", "4", "/", "2", "0", "2", "4">>

dSlashShort == <<"1", "/", "5", "/", "2", "0", "2", "4">>

dSlashUneven == <<"1", "2", "/", "3", "/", "2", "0", "2", "4">>

dCompact == <<"2", "0", "2", "4", "0", "1", "1", "5">>

dMixed == <<"1", "5", ".", "0", "1", "/", "2", "0", "2", "4">>

dDashed == <<"1", "5", "-", "0", "1", "-", "2", "0", "2", "4">>

dIsoTime == <<"2", "0", "2", "4", "-", "0", "1", "-", "1", "5", "T", "1", "0", ":", "0", "0">>

\* the Date tokens a csv field can hold
DateTokens ==
    {dIso15, dIso16, dIsoOdd, dDots, dSlash, dSlashDay, dSlashLow, dSlashHigh,
     dSlashShort, dSlashUneven, dCompact, dMixed, dDashed, dLong, dIsoTime, <<>>}

\* the hints of the table `formats`
KnownFormats == {"%Y-%m-%d", "%d.%m.%Y", "%d/%m/%Y", "%m/%d/%Y", "%Y%m%d"}

\* the date formats a dialect descriptor can carry, "" for none
DateFormats == KnownFormats \cup {"", "%d-%m-%Y", "%Y/%m/%d"}

\* a payee name whose 200th character is a space
sSpaceAtCap == Repeat("A", PayeeMaxLength - 1) \o <<" ">> \o Repeat("B", 5)

\* a memo whose 100th character is a space
sMemoSpaceAtCap == Repeat("M", MemoMaxLength - 1) \o <<" ">> \o Repeat("N", 5)

rowSpaceAtCap == <<dIso15, sSpaceAtCap, <<>>, sMemoSpaceAtCap, a50, <<>>>>

rowCafeRaw == <<dIso15, sCafeRaw, <<>>, sCafeBel, a50, <<>>>>

rowBlankTexts == <<dIso16, <<" ">>, <<>>, <<"^G">>, a10, <<>>>>

\* rows whose payee and memo need sanitizing, and rows that need none
TextRows == {rowStoreA, rowSalary, rowDots, rowSpaceAtCap, rowCafeRaw, rowBlankTexts}

TextFiles == {<<headerYnab>> \o rows : rows \in SeqsUpTo(TextRows, MaxRows)}

\* ''.split('\n'): the one empty line of a file without content
EmptyContent == <<<<>>>>

\* a header without a Date column
headerNoDate == <<cPayee, cOutflow>>

\* the files validateCSV is given
ValidatedFiles ==
    Files \cup RecasedFiles
        \cup {EmptyContent, <<headerNoDate>>, <<headerNoDate, <<sStoreA, a50>>>>}

fStatement == <<"o", "r", "i", "g", "i", "n", "a", "l", "-", "b", "a", "n", "k", "-", "s", "t", "a", "t", "e", "m", "e", "n", "t", ".", "c", "s", "v">>

fYnabExport == <<"y", "n", "a", "b", "-", "e", "x", "p", "o", "r", "t", ".", "c", "s", "v">>

fNeonDated == <<"n", "e", "o", "n", "-", "2", "0", "2", "5", ".", "c", "s", "v">>

\* the names uploads and local files carry
fYnabNeon == <<"y", "n", "a", "b", "-", "2", "0", "2", "5", "-", "n", "e", "o", "n", ".", "c", "s", "v">>

OriginalNames ==
    {fNeon, fUbs, fMine, fStatement, fYnabExport, fNeonDated, fYnabNeon, <<>>}

\* crypto.randomBytes(n).toString('hex'): hexadecimal digits, no hyphen
RandomNames == {<<"a", "b", "c", "1", "2", "3", "d", "e", "f", "4", "5", "6">>, <<"1", "a", "2", "b">>, <<"0">>}

sTmpDir == <<"/", "t", "m", "p", "/">>

sHomeDir == <<"/", "h", "o", "m", "e", "/", "m", "e", "/">>

\* path.join(os.tmpdir(), `ynab-${randomName}-${originalFilename}`)
StagedPath(randomName, originalFilename) ==
    sTmpDir \o sTempPrefix \o randomName \o <<"-">> \o originalFilename

StagedPaths == {StagedPath(r, o) : r \in RandomNames, o \in OriginalNames}

\* files given to the command line by their own path
LocalPaths == {dir \o o : dir \in {sHomeDir, <<>>}, o \in OriginalNames \ {<<>>}}

\* <<filePath, originalFilename>>: the command line passes the path alone,
\* the server the staged path with the name of the upload, a library caller
\* any path with a name
NameArgs ==
    {<<p, NULL>> : p \in StagedPaths \cup LocalPaths}
    \cup {<<StagedPath(r, o), o>> : r \in RandomNames, o \in OriginalNames}
    \cup {<<p, o>> : p \in LocalPaths, o \in OriginalNames \ {<<>>}}

txStoreA ==
    [date |-> dIso15, payee_name |-> sStoreA, category_name |-> sFood,
     memo |-> sGroceries, amount |-> -500000]

txStoreB ==
    [date |-> dIso15, payee_name |-> sStoreB, category_name |-> NULL,
     memo |-> sGroceries, amount |-> -500000]

\* the content of txStoreA under no category
txStoreAPlain ==
    [date |-> dIso15, payee_name |-> sStoreA, category_name |-> NULL,
     memo |-> sGroceries, amount |-> -500000]

TxPool == {txStoreA, txStoreB, txStoreAPlain}

\* amounts with a fraction of a milliunit: 1.2346, -1.2346 and -1.2345
txRoundedUp ==
    [date |-> dIso16, payee_name |-> sStoreA, category_name |-> NULL,
     memo |-> sWeekly, amount |-> 12346]

txRoundedDown ==
    [date |-> dIso16, payee_name |-> sStoreB, category_name |-> NULL,
     memo |-> NULL, amount |-> -12346]

txHalfway ==
    [date |-> dIso15, payee_name |-> NULL, category_name |-> NULL,
     memo |-> sWeekly, amount |-> -12345]

tx284 ==
    [date |-> dIso15, payee_name |-> sStore284, category_name |-> NULL,
     memo |-> NULL, amount |-> -500000]

tx318 ==
    [date |-> dIso15, payee_name |-> sStore318, category_name |-> NULL,
     memo |-> NULL, amount |-> -500000]

txCoopLunch ==
    [date |-> dIso15, payee_name |-> sCoop, category_name |-> NULL,
     memo |-> sLunch, amount |-> -500000]

txCoopInCity ==
    [date |-> dIso15, payee_name |-> sCoop, category_name |-> NULL,
     memo |-> sCityLunch, amount |-> -500000]

txCoopCity ==
    [date |-> dIso15, payee_name |-> sCoopCity, category_name |-> NULL,
     memo |-> sLunch, amount |-> -500000]

\* transactions of one amount and date with different payees or memos
KeyPool == {txStoreAPlain, txStoreB, tx284, tx318, txCoopLunch, txCoopInCity, txCoopCity}

KeyBatches == SeqsUpTo(KeyPool, MaxBatch)

EntryPool == {txStoreA, txRoundedUp, txRoundedDown, txHalfway}

EntryBatches == SeqsUpTo(EntryPool, MaxBatch)

Batches == SeqsUpTo(TxPool, MaxBatch)

Account(id, closed) == [id |-> id, closed |-> closed]

oneBudgetService ==
    [budgets |-> <<"b1">>,
     accounts |-> [b \in {"b1"} |-> <<Account("a1", FALSE), Account("a3", TRUE)>>],
     recorded |-> {}]

twoBudgetService ==
    [budgets |-> <<"b1", "b2">>,
     accounts |-> [b \in {"b1", "b2"} |->
                      IF b = "b1"
                      THEN <<Account("a1", FALSE), Account("a2", FALSE), Account("a3", TRUE)>>
                      ELSE <<Account("a4", FALSE)>>],
     recorded |-> {}]

Services == {oneBudgetService, twoBudgetService}

noBudgetService ==
    [budgets |-> <<>>, accounts |-> [b \in {} |-> <<>>], recorded |-> {}]

closedOnlyService ==
    [budgets |-> <<"b1">>,
     accounts |-> [b \in {"b1"} |-> <<Account("a3", TRUE)>>],
     recorded |-> {}]

\* the services the target is resolved against
TargetServices == {oneBudgetService, twoBudgetService, noBudgetService, closedOnlyService}

\* a service call that throws: the error object of an API response, or the
\* exception of a failed request
Faults ==
    {NoFault}
    \cup {[at |-> at, kind |-> kind] :
              at \in {"getBudgets", "getAccounts", "createTransactions"},
              kind \in {"api", "network"}}

Config(budgetId, accountId) ==
    [accessToken |-> "token", budgetId |-> budgetId, accountId |-> accountId]

UploadConfigs == {Config("", ""), Config("b1", "a1")}

\* configurations with each id present or absent
TargetConfigs == {Config("", ""), Config("b1", ""), Config("", "a1"), Config("b1", "a1")}

\* batches of none, one and two transactions
TargetBatches == {<<>>, <<txStoreA>>, <<txStoreA, txStoreB>>}

\* a3 is a closed account where it exists
TargetAccountOverrides == {"", "a2", "a3"}

\* the budgets a caller can name: those of the service
BudgetsOf(service) == {service.budgets[i] : i \in 1..Len(service.budgets)}

AccountOverrides == {"", "a2"}

BudgetOverrides == {"", "b2"}

(***************************************************************************)
(* The import handlers: POST /api/upload and the CLI import command        *)
(***************************************************************************)

sCsvExtension == <<".", "c", "s", "v">>

EndsWith(s, suffix) ==
    Len(s) >= Len(suffix) /\ SubSeq(s, Len(s) - Len(suffix) + 1, Len(s)) = suffix

\* validateCSVFile(buffer, filename) for a buffer within the size limits and
\* without script content: "ok" when it returns, else the message it throws
validateCSVFile(lines, filename) ==
    IF ~EndsWith(filename, sCsvExtension) THEN "File must have .csv extension"
    ELSE IF Len(lines) > 0 /\ ~Includes(LineText(lines[1]), <<",">>)
                           /\ ~Includes(LineText(lines[1]), <<";">>)
    THEN "File does not appear to be a valid CSV"
    ELSE "ok"

\* most imports under way at once
MaxImports == 2

Imports == 1..MaxImports

\* most transactions of a preview: slice(0, 10) in the server
ServerPreviewLength == 10

\* slice(0, 5) in the CLI
CliPreviewLength == 5

\* an import that has not been received
Idle ==
    [via |-> "none", phase |-> "idle", dryRun |-> FALSE, filename |-> <<>>,
     accountId |-> "", budgetId |-> "", config |-> Config("", ""), tmpFile |-> NULL,
     written |-> FALSE, transactions |-> <<>>, preview |-> <<>>, status |-> 0,
     reply |-> "none", uploads |-> 0, calls |-> <<>>]

\* what a client sends: the file part and the query of POST /api/upload, or
\* the argument and the option of ynab import
Sent(via, filename, lines, dryRun, accountId, budgetId, config, randomName) ==
    [via |-> via, filename |-> filename, lines |-> lines, dryRun |-> dryRun,
     accountId |-> accountId, budgetId |-> budgetId, config |-> config,
     randomName |-> randomName]

Received(sent) ==
    [Idle EXCEPT !.via = sent.via, !.dryRun = sent.dryRun, !.filename = sent.filename,
                 !.accountId = sent.accountId, !.budgetId = sent.budgetId,
                 !.config = sent.config]

\* the handler returned: the reply's status code and what the body carries
Replied(req, status, reply) == [req EXCEPT !.phase = "done", !.status = status, !.reply = reply]

\* the handler is suspended at await uploadTransactions(...)
Awaiting(req, transactions) ==
    [req EXCEPT !.phase = "uploading", !.transactions = transactions]

serveStaged_always(req, p) ==
    IF p.error.kind # "none" THEN Replied(req, 500, "error")
    ELSE IF req.accountId = "" /\ req.config.accountId = ""
    THEN Replied(req, 400, "error")
    ELSE Awaiting(req, p.transactions)

\* the inner try block of POST /api/upload up to its first await or return
serveStaged(req, p) ==
    IF p.error.kind # "none" THEN Replied(req, 500, "error")
    ELSE IF req.dryRun
    THEN Replied([req EXCEPT !.preview = Take(p.transactions, ServerPreviewLength)],
                 200, "preview")
    ELSE IF req.accountId = "" /\ req.config.accountId = ""
    THEN Replied(req, 400, "error")
    ELSE Awaiting(req, p.transactions)

\* POST /api/upload from the file part to the first await or return after it
serveUpload(sent, registry) ==
    IF validateCSVFile(sent.lines, sent.filename) # "ok"
    THEN Replied(Received(sent), 400, "error")
    ELSE serveStaged([Received(sent) EXCEPT
                          !.tmpFile = StagedPath(sent.randomName, sent.filename),
                          !.written = TRUE],
                     parseCSV(StagedPath(sent.randomName, sent.filename),
                              sent.filename, sent.lines, registry))

\* the import command after parseCSV
importParsed(req, p) ==
    IF p.error.kind # "none" THEN Replied(req, 1, "error")
    ELSE IF Len(p.transactions) = 0 THEN Replied(req, 0, "nothing")
    ELSE IF req.dryRun
    THEN Replied([req EXCEPT !.preview = Take(p.transactions, CliPreviewLength)],
                 0, "preview")
    ELSE Awaiting([req EXCEPT !.preview = Take(p.transactions, CliPreviewLength)],
                  p.transactions)

\* ynab import <file> [--dry-run] with a configuration and an existing file,
\* up to its first await or return
importCommand(sent, registry) ==
    IF validateCSVError(sent.lines) # NoError THEN Replied(Received(sent), 1, "error")
    ELSE importParsed(Received(sent), parseCSV(sent.filename, <<>>, sent.lines, registry))

\* the temp directory when the inner try block of POST /api/upload is left
\* with the staged file written: the finally block runs unless the handler is
\* suspended
stagedFilesAfter_onReturn(existing, req) ==
    IF req.phase = "done" /\ req.status = 200 THEN existing \ {req.tmpFile}
    ELSE existing \cup {req.tmpFile}

stagedFilesAfter(existing, req) ==
    IF req.phase = "done" THEN existing \ {req.tmpFile}
    ELSE existing \cup {req.tmpFile}

\* the temp directory after the given part of a handler
filesAfter(existing, req) ==
    IF req.written THEN stagedFilesAfter(existing, req) ELSE existing

\* the handler resumes after uploadTransactions with the call's outcome
settled(req, call) ==
    [req EXCEPT !.phase = "done", !.uploads = @ + 1, !.calls = @ \o call.calls,
                !.status = IF call.outcome = "ok" THEN (IF req.via = "cli" THEN 0 ELSE 200)
                           ELSE (IF req.via = "cli" THEN 1 ELSE 500),
                !.reply = IF call.outcome = "ok" THEN "result" ELSE "error"]

\* the files sent to the handlers
ImportFiles ==
    {<<headerYnab, rowStoreA>>, <<headerYnab, rowStoreA, rowSalary>>, <<headerYnab>>,
     <<headerYnab, rowNoDate>>, EmptyContent, <<headerNoDate, <<sStoreA, a50>>>>}

ImportNames == {fStatement, fMine}

\* the configurations getConfig() returns
ImportConfigs == {Config("b1", ""), Config("b1", "a1")}

\* the account of the query, absent or chosen in the page
ImportAccounts == {"", "a1"}

\* crypto.randomBytes(16).toString('hex') of the requests
ImportRandomNames == {<<"a", "b", "c", "1", "2", "3", "d", "e", "f", "4", "5", "6">>, <<"1", "a", "2", "b">>}

\* the faults of the budgeting service during an import
ImportFaults == {NoFault, [at |-> "createTransactions", kind |-> "api"]}

(***************************************************************************)
(* The web page: main.ts, state.ts and ui.ts                               *)
(***************************************************************************)

\* null in a field of state that holds an id
NoId == "null"

\* no upload request is in flight
NoUploadFile == [file |-> NULL, accountId |-> NoId, budgetId |-> NoId]

\* the page when main.ts has run: loadBudgets() is in flight
LoadedPage ==
    [currentFile |-> NULL, previewData |-> NULL, selectedBudgetId |-> NoId,
     selectedAccountId |-> NoId, budgets |-> <<>>,
     previewContent |-> NULL, previewVisible |-> FALSE, dropZoneVisible |-> TRUE,
     budgetSelect |-> "", budgetOptions |-> {}, accountSelect |-> "",
     accountOptions |-> {}, accountEnabled |-> FALSE, uploadDisabled |-> FALSE,
     result |-> "none", init |-> "budgets", dryRuns |-> {}, loads |-> {},
     upload |-> NoUploadFile, refused |-> FALSE]

\* a loadAccounts request in flight: the account to preselect when it
\* returns, and whether initBudgets goes on to checkPreselectedBudget
Load(budgetId, preselect, thenCheck) ==
    [budgetId |-> budgetId, preselect |-> preselect, thenCheck |-> thenCheck]

\* handleLoadAccounts up to its await: setAccountDropdownLoading
loadingAccounts(page, load) ==
    [page EXCEPT !.accountSelect = "", !.accountOptions = {}, !.accountEnabled = FALSE,
                 !.loads = @ \cup {load}]

\* resetState()
resetState(page) ==
    [page EXCEPT !.currentFile = NULL, !.previewData = NULL,
                 !.selectedBudgetId = NoId, !.selectedAccountId = NoId]

\* resetUI(preview, dropZone, fileInput)
resetUI(page) == [page EXCEPT !.previewVisible = FALSE, !.dropZoneVisible = TRUE]

\* handleReset()
handleReset(page) == resetUI(resetState(page))

\* initBudgets after loadBudgets() returned
budgetsLoaded(page, budgets) ==
    IF Len(budgets) = 0 THEN [page EXCEPT !.init = "ready"]
    ELSE IF Len(budgets) = 1
    THEN loadingAccounts([page EXCEPT !.budgets = budgets,
                                      !.budgetOptions = {budgets[1]},
                                      !.budgetSelect = budgets[1],
                                      !.selectedBudgetId = budgets[1],
                                      !.init = "accounts"],
                         Load(budgets[1], "", TRUE))
    ELSE [page EXCEPT !.budgets = budgets,
                      !.budgetOptions = {budgets[i] : i \in 1..Len(budgets)},
                      !.init = "config"]

\* checkPreselectedBudget after checkConfig() returned
configChecked(page, config) ==
    IF config.budgetId # "" /\ config.budgetId \in page.budgetOptions
    THEN loadingAccounts([page EXCEPT !.budgetSelect = config.budgetId,
                                      !.selectedBudgetId = config.budgetId,
                                      !.init = "ready"],
                         Load(config.budgetId, config.accountId, FALSE))
    ELSE [page EXCEPT !.init = "ready"]

\* the account dropdown after loadAccounts returned
populated(page, accounts) ==
    IF accounts # {}
    THEN [page EXCEPT !.accountSelect = "", !.accountOptions = accounts,
                      !.accountEnabled = TRUE]
    ELSE [page EXCEPT !.accountSelect = "", !.accountOptions = {},
                      !.accountEnabled = FALSE]

\* what follows await handleLoadAccounts(...) in its caller
afterLoad(page, load) ==
    IF load.thenCheck THEN [page EXCEPT !.init = "config"]
    ELSE IF load.preselect # "" /\ load.preselect \in page.accountOptions
    THEN [page EXCEPT !.accountSelect = load.preselect,
                      !.selectedAccountId = load.preselect]
    ELSE page

\* handleLoadAccounts and its caller after loadAccounts returned
accountsLoaded(page, load, accounts) ==
    afterLoad(populated([page EXCEPT !.loads = @ \ {load}], accounts), load)

\* the change listener of budgetSelect
budgetChanged(page, value) ==
    IF value # ""
    THEN loadingAccounts([page EXCEPT !.budgetSelect = value,
                                      !.selectedBudgetId = value,
                                      !.selectedAccountId = NoId],
                         Load(value, "", FALSE))
    ELSE [page EXCEPT !.budgetSelect = value, !.selectedBudgetId = value,
                      !.selectedAccountId = NoId, !.accountSelect = "",
                      !.accountOptions = {}]

\* the change listener of accountSelect
accountChanged(page, value) ==
    [page EXCEPT !.accountSelect = value, !.selectedAccountId = value]

\* handleFile(file) up to its await or return
handleFile(page, file) ==
    IF ~EndsWith(file, sCsvExtension) THEN [page EXCEPT !.result = "Invalid File"]
    ELSE [page EXCEPT !.currentFile = file, !.dryRuns = @ \cup {file}]

\* handleFile(file) after dryRunFile(file) returned: showPreview or showResult
dryRunReturned(page, file, success) ==
    IF success
    THEN [page EXCEPT !.dryRuns = @ \ {file}, !.previewData = file,
                      !.previewContent = file, !.previewVisible = TRUE,
                      !.dropZoneVisible = FALSE, !.result = "none"]
    ELSE [page EXCEPT !.dryRuns = @ \ {file}, !.result = "Error Parsing CSV"]

\* handleUpload() up to its await or return
handleUpload(page) ==
    IF page.currentFile = NULL THEN page
    ELSE IF page.selectedAccountId \in {NoId, ""}
    THEN [page EXCEPT !.result = "No Account Selected",
                      !.refused = page.accountSelect # ""]
    ELSE [page EXCEPT !.uploadDisabled = TRUE, !.result = "Uploading Transactions",
                      !.refused = FALSE,
                      !.upload = [file |-> page.currentFile,
                                  accountId |-> page.selectedAccountId,
                                  budgetId |-> page.selectedBudgetId]]

\* handleUpload() after uploadFile(...) returned
uploadReturned(page, success) ==
    IF success
    THEN [page EXCEPT !.previewVisible = FALSE, !.result = "Upload Successful",
                      !.uploadDisabled = FALSE, !.upload = NoUploadFile]
    ELSE [page EXCEPT !.result = "Upload Failed", !.uploadDisabled = FALSE,
                      !.upload = NoUploadFile]

\* most loadAccounts requests in flight at once
MaxLoads == 1

\* the files the user drops
PageFiles == {fStatement, fNeon, fMine}

\* the budgets /api/budgets returns
PageBudgets == {<<>>, <<"b1">>, <<"b1", "b2">>}

\* the accounts /api/accounts returns for a budget
PageAccounts(budgetId) == IF budgetId = "b1" THEN {"a1", "a2"} ELSE {}

\* what /api/config returns: nothing preselected, or a budget and an account
PageConfigs == {Config("", ""), Config("b1", "a1")}

(***************************************************************************)
(* The state machine                                                       *)
(***************************************************************************)

NoMatch == [filename |-> NULL, threw |-> FALSE, index |-> 0]

NotParsed ==
    [filename |-> NULL, dialect |-> 0, lines |-> <<>>,
     error |-> [kind |-> "not called", message |-> "", line |-> 0],
     records |-> <<>>, mapped |-> <<>>, transactions |-> <<>>]

NoUpload ==
    [transactions |-> <<>>, config |-> Config("", ""), accountIdOverride |-> "",
     budgetIdOverride |-> "", budgetId |-> "", accountId |-> "", batch |-> <<>>,
     calls |-> <<>>, outcome |-> "not called", error |-> "none", imported |-> 0,
     duplicates |-> 0, listed |-> <<>>, failed |-> NoFault]

NotNamed == [filePath |-> NULL, originalFilename |-> NULL, filename |-> NULL, index |-> 0]

NotNormalized == [dateStr |-> NULL, formatStr |-> NULL, date |-> NULL]

NotValidated ==
    [lines |-> NULL, error |-> [kind |-> "not called", message |-> "", line |-> 0]]

NoRequests == [i \in Imports |-> Idle]

FreshPage == LoadedPage

Init ==
    /\ configs = BundledConfigs
    /\ matched = NoMatch
    /\ parsed = NotParsed
    /\ ynab = oneBudgetService
    /\ uploaded = NoUpload
    /\ history = <<>>
    /\ named = NotNamed
    /\ normalized = NotNormalized
    /\ validated = NotValidated
    /\ requests = NoRequests
    /\ files = {}
    /\ ui = FreshPage

\* the matcher alone, over every registry
\* a registry with a mapping of six columns, one of them skipped, and a
\* mapping of three columns
InitColumns ==
    /\ configs = <<cfgNeon, cfgCsv>>
    /\ matched = NoMatch
    /\ parsed = NotParsed
    /\ ynab = oneBudgetService
    /\ uploaded = NoUpload
    /\ history = <<>>
    /\ named = NotNamed
    /\ normalized = NotNormalized
    /\ validated = NotValidated
    /\ requests = NoRequests
    /\ files = {}
    /\ ui = FreshPage

InitMatch ==
    /\ configs \in Registries
    /\ matched = NoMatch
    /\ parsed = NotParsed
    /\ ynab = oneBudgetService
    /\ uploaded = NoUpload
    /\ history = <<>>
    /\ named = NotNamed
    /\ normalized = NotNormalized
    /\ validated = NotValidated
    /\ requests = NoRequests
    /\ files = {}
    /\ ui = FreshPage

\* one upload against every service of TargetServices
InitTarget ==
    /\ configs = BundledConfigs
    /\ matched = NoMatch
    /\ parsed = NotParsed
    /\ ynab \in TargetServices
    /\ uploaded = NoUpload
    /\ history = <<>>
    /\ named = NotNamed
    /\ normalized = NotNormalized
    /\ validated = NotValidated
    /\ requests = NoRequests
    /\ files = {}
    /\ ui = FreshPage

\* the uploader alone, over every service
InitUpload ==
    /\ configs = BundledConfigs
    /\ matched = NoMatch
    /\ parsed = NotParsed
    /\ ynab \in Services
    /\ uploaded = NoUpload
    /\ history = <<>>
    /\ named = NotNamed
    /\ normalized = NotNormalized
    /\ validated = NotValidated
    /\ requests = NoRequests
    /\ files = {}
    /\ ui = FreshPage

Matched(filename, found) ==
    [filename |-> filename, threw |-> found.threw, index |-> found.index]

\* findMatchingConfig(filename, configs)
FindMatchingConfig(filename) ==
    /\ matched' = Matched(filename, findMatchingConfig(filename, configs))
    /\ UNCHANGED <<configs, parsed, ynab, uploaded, history, named, normalized, webVars>>

\* parseCSV(filePath, originalFilename) on a file with the given content.  A
\* run makes one call, and a call reads nothing an earlier call left behind.
ParseCSV(filePath, originalFilename, lines) ==
    /\ parsed = NotParsed
    /\ parsed' = parseCSV(filePath, originalFilename, lines, configs)
    /\ UNCHANGED <<configs, matched, ynab, uploaded, history, named, normalized, webVars>>

\* uploadTransactions(transactions, config, accountIdOverride, budgetIdOverride):
\* history keeps the calls in order
UploadTransactions(transactions, config, accountIdOverride, budgetIdOverride, fault) ==
    /\ Len(history) < MaxUploads
    /\ \E r \in {uploadTransactions(transactions, config, accountIdOverride,
                                    budgetIdOverride, ynab, fault)} :
           /\ uploaded' = r.call
           /\ ynab' = [ynab EXCEPT !.recorded = r.recorded]
           /\ history' = Append(history, r.call)
    /\ UNCHANGED <<configs, matched, parsed, named, normalized, webVars>>

\* the callers' second step: upload what parseCSV returned
UploadParsed ==
    /\ parsed.error.kind = "none"
    /\ \E accountIdOverride \in AccountOverrides :
           UploadTransactions(parsed.transactions, Config("b1", "a1"),
                              accountIdOverride, "", NoFault)

\* the uploader alone, on batches handed to it directly
UploadBatch ==
    \E transactions \in Batches, config \in UploadConfigs,
       accountIdOverride \in AccountOverrides, budgetIdOverride \in BudgetOverrides :
        UploadTransactions(transactions, config, accountIdOverride, budgetIdOverride,
                           NoFault)

\* the first half of parseCSV(filePath, originalFilename): settle the
\* filename and look the dialect up
NameFile(filePath, originalFilename) ==
    /\ \E filename \in {EffectiveFilename(filePath, originalFilename)} :
           named' = [filePath |-> filePath, originalFilename |-> originalFilename,
                     filename |-> filename,
                     index |-> findMatchingConfig(filename, configs).index]
    /\ UNCHANGED <<configs, matched, parsed, ynab, uploaded, history, normalized, webVars>>

\* one upload, with or without a service call that throws
UploadOnce ==
    /\ history = <<>>
    /\ \E transactions \in TargetBatches, config \in TargetConfigs,
          accountIdOverride \in TargetAccountOverrides,
          budgetIdOverride \in BudgetOverrides, fault \in Faults :
           /\ config.budgetId \in BudgetsOf(ynab) \cup {""}
           /\ budgetIdOverride \in BudgetsOf(ynab) \cup {""}
           /\ UploadTransactions(transactions, config, accountIdOverride,
                                 budgetIdOverride, fault)

\* POST /api/upload is received: the handler runs to its first await after
\* the file part, or to its return
PostUpload(i, sent) ==
    /\ requests[i].phase = "idle"
    /\ \E req \in {serveUpload(sent, configs)} :
           /\ requests' = [requests EXCEPT ![i] = req]
           /\ files' = filesAfter(files, req)
    /\ UNCHANGED <<libVars, validated, ui>>

\* ynab import is started: the command runs to its first await, or to its end
ImportCommand(i, sent) ==
    /\ requests[i].phase = "idle"
    /\ requests' = [requests EXCEPT ![i] = importCommand(sent, configs)]
    /\ UNCHANGED <<libVars, validated, files, ui>>

\* uploadTransactions settles and the suspended handler runs to its end; the
\* CLI passes the ids promptForBudgetAndAccount returned
UploadSettles(i, fault, prompted) ==
    /\ requests[i].phase = "uploading"
    /\ \E r \in {uploadTransactions(requests[i].transactions, requests[i].config,
                                    IF requests[i].via = "cli" THEN prompted
                                    ELSE requests[i].accountId,
                                    IF requests[i].via = "cli" THEN "b1"
                                    ELSE requests[i].budgetId,
                                    ynab, fault)} :
           /\ uploaded' = r.call
           /\ ynab' = [ynab EXCEPT !.recorded = r.recorded]
           /\ \E req \in {settled(requests[i], r.call)} :
                  /\ requests' = [requests EXCEPT ![i] = req]
                  /\ files' = filesAfter(files, req)
    /\ UNCHANGED <<configs, matched, parsed, history, named, normalized, validated, ui>>

Post ==
    \E i \in Imports, filename \in ImportNames, lines \in ImportFiles,
       dryRun \in BOOLEAN, accountId \in ImportAccounts, config \in ImportConfigs,
       randomName \in ImportRandomNames :
        PostUpload(i, Sent("server", filename, lines, dryRun, accountId, "", config,
                           randomName))

Command ==
    \E i \in Imports, filename \in ImportNames, lines \in ImportFiles,
       dryRun \in BOOLEAN, config \in ImportConfigs :
        ImportCommand(i, Sent("cli", filename, lines, dryRun, "", "", config, <<>>))

Settle ==
    \E i \in Imports, fault \in ImportFaults, prompted \in {"a1", "a2"} :
        UploadSettles(i, fault, prompted)

\* the page's variables change to an outcome of one of its handlers
PageStep(page) ==
    /\ ui' = page
    /\ UNCHANGED <<libVars, validated, requests, files>>

BudgetsLoaded ==
    /\ ui.init = "budgets"
    /\ \E budgets \in PageBudgets : PageStep(budgetsLoaded(ui, budgets))

ConfigChecked ==
    /\ ui.init = "config"
    /\ \E config \in PageConfigs : PageStep(configChecked(ui, config))

AccountsLoaded ==
    \E load \in ui.loads : PageStep(accountsLoaded(ui, load, PageAccounts(load.budgetId)))

\* the user picks another entry of the budget dropdown
ChangeBudget ==
    \E value \in (ui.budgetOptions \cup {""}) \ {ui.budgetSelect} :
        /\ ui.budgetOptions # {}
        /\ Cardinality(ui.loads) < MaxLoads
        /\ PageStep(budgetChanged(ui, value))

\* the user picks another entry of the account dropdown
ChangeAccount ==
    /\ ui.accountEnabled
    /\ \E value \in (ui.accountOptions \cup {""}) \ {ui.accountSelect} :
           PageStep(accountChanged(ui, value))

\* the user drops a file on the drop zone or picks one
DropFile ==
    /\ ui.dropZoneVisible
    /\ \E file \in PageFiles \ ui.dryRuns : PageStep(handleFile(ui, file))

DryRunReturns ==
    \E file \in ui.dryRuns, success \in BOOLEAN : PageStep(dryRunReturned(ui, file, success))

\* the user clicks Upload to YNAB
ClickUpload ==
    /\ ui.previewVisible /\ ~ui.uploadDisabled
    /\ PageStep(handleUpload(ui))

UploadReturns ==
    /\ ui.upload # NoUploadFile
    /\ \E success \in BOOLEAN : PageStep(uploadReturned(ui, success))

\* the user clicks Cancel
ClickCancel ==
    /\ ui.previewVisible
    /\ PageStep(handleReset(ui))

\* the user clicks Import Another File
ClickImportAnother ==
    /\ ui.result = "Upload Successful"
    /\ PageStep(handleReset(ui))

\* validateCSV(filePath) on a file with the given content
ValidateCSV(lines) ==
    /\ validated' = [lines |-> lines, error |-> validateCSVError(lines)]
    /\ UNCHANGED <<libVars, requests, files, ui>>

ValidateFile == \E lines \in ValidatedFiles : ValidateCSV(lines)

\* parseDate(dateStr, formatStr)
ParseDate(dateStr, formatStr) ==
    /\ normalized' = [dateStr |-> dateStr, formatStr |-> formatStr,
                      date |-> parseDate(dateStr, formatStr)]
    /\ UNCHANGED <<configs, matched, parsed, ynab, uploaded, history, named, webVars>>

NormalizeDate ==
    \E dateStr \in DateTokens, formatStr \in DateFormats : ParseDate(dateStr, formatStr)

NameFiles == \E args \in NameArgs : NameFile(args[1], args[2])

\* one uploadTransactions call with a batch of whole and fractional amounts
UploadEntries ==
    /\ history = <<>>
    /\ \E transactions \in EntryBatches, config \in TargetConfigs,
          accountIdOverride \in TargetAccountOverrides :
           UploadTransactions(transactions, config, accountIdOverride, "", NoFault)

\* one uploadTransactions call with transactions of one amount and date
UploadAlike ==
    /\ history = <<>>
    /\ \E transactions \in KeyBatches, config \in TargetConfigs,
          accountIdOverride \in TargetAccountOverrides :
           UploadTransactions(transactions, config, accountIdOverride, "", NoFault)

\* parseCSV on a file whose texts need sanitizing
ParseTexts ==
    \E args \in ParseArgs, lines \in TextFiles : ParseCSV(args[1], args[2], lines)

ParseFile ==
    \E args \in ParseArgs, lines \in Files \cup RecasedFiles :
        ParseCSV(args[1], args[2], lines)

MatchFile == \E filename \in Filenames : FindMatchingConfig(filename)

Next == ParseFile \/ UploadParsed

Spec == Init /\ [][Next]_vars

NextMatch == MatchFile

SpecMatch == InitMatch /\ [][NextMatch]_vars

NextParse == ParseFile

SpecParse == Init /\ [][NextParse]_vars

NextUpload == UploadBatch

NextTarget == UploadOnce

SpecTarget == InitTarget /\ [][NextTarget]_vars

NextEntries == UploadEntries

SpecEntries == Init /\ [][NextEntries]_vars

NextKeys == UploadAlike

SpecKeys == Init /\ [][NextKeys]_vars

NextColumns == ParseFile

SpecColumns == InitColumns /\ [][NextColumns]_vars

NextText == ParseTexts

SpecText == InitColumns /\ [][NextText]_vars

NextPage ==
    \/ BudgetsLoaded \/ ConfigChecked \/ AccountsLoaded \/ ChangeBudget \/ ChangeAccount
    \/ DropFile \/ DryRunReturns \/ ClickUpload \/ UploadReturns \/ ClickCancel
    \/ ClickImportAnother

SpecPage == Init /\ [][NextPage]_vars

NextImport == Post \/ Command \/ Settle

SpecImport == Init /\ [][NextImport]_vars

NextValidate == ValidateFile

SpecValidate == Init /\ [][NextValidate]_vars

NextName == NameFiles

SpecName == Init /\ [][NextName]_vars

NextDate == NormalizeDate

SpecDate == Init /\ [][NextDate]_vars

SpecUpload == InitUpload /\ [][NextUpload]_vars

(***************************************************************************)
(* The deduplication key                                                   *)
(***************************************************************************)

\* the four fields the key is computed from
SameContent(t1, t2) ==
    /\ t1.amount = t2.amount
    /\ t1.date = t2.date
    /\ t1.payee_name = t2.payee_name
    /\ t1.memo = t2.memo

ImportIdMaxLength == 36

\* C2: every key generated for a Transaction that parseCSV returned is at
\* most 36 characters long.
KeyWithinLimit ==
    \A k \in 1..Len(uploaded.batch) :
        Len(uploaded.batch[k].import_id) <= ImportIdMaxLength

\* call j repeats call i: both succeeded, with the same list, on the same
\* budget and account
Repeats(i, j) ==
    /\ i < j
    /\ history[i].outcome = "ok" /\ history[j].outcome = "ok"
    /\ history[i].transactions = history[j].transactions
    /\ history[i].budgetId = history[j].budgetId
    /\ history[i].accountId = history[j].accountId

\* C3 as stated: a repeated upload returns imported = 0 and duplicates > 0.
RepeatIsAllDuplicates ==
    \A i, j \in 1..Len(history) :
        Repeats(i, j) => history[j].imported = 0 /\ history[j].duplicates > 0

\* C3, amended: a repeated upload returns imported = 0, and duplicates > 0
\* when the list is not empty.
RepeatImportsNothing ==
    \A i, j \in 1..Len(history) :
        Repeats(i, j) =>
            /\ history[j].imported = 0
            /\ history[j].transactions # <<>> => history[j].duplicates > 0

\* C3 happens: a list of two different transactions was uploaded twice to
\* the same place; the first call recorded both, the second none.
ReimportedList ==
    \E i, j \in 1..Len(history) :
        /\ Repeats(i, j)
        /\ history[i].imported = 2
        /\ history[j].imported = 0 /\ history[j].duplicates = 2

(***************************************************************************)
(* The dialect matcher                                                     *)
(***************************************************************************)

\* the descriptor's pattern matches the filename
Matches(filename, config) == testConfig(filename, config) = "match"

\* the places of the registry whose descriptor matches the filename
Hits(filename, entries) == {i \in 1..Len(entries) : Matches(filename, entries[i])}

\* the earliest of them, 0 when there is none
FirstOf(hits) == IF hits = {} THEN 0 ELSE Least(hits)

\* C4: findMatchingConfig returns the earliest descriptor of the registry
\* whose pattern matches the filename, and null exactly when none matches.
FirstMatchWins ==
    matched.filename # NULL =>
        matched.index = FirstOf(Hits(matched.filename, configs))

\* C4 happens: two different descriptors match the filename and the earlier
\* one was returned.
EarlierOfTwoSelected ==
    /\ matched.filename # NULL
    /\ matched.index # 0
    /\ \E j \in (matched.index + 1)..Len(configs) :
           /\ configs[j] # configs[matched.index]
           /\ Matches(matched.filename, configs[j])

\* new RegExp(config.pattern) throws
Broken(config) == config.useRegex /\ RegExpThrows(config.pattern)

\* C5: a descriptor whose regular expression does not compile never makes
\* findMatchingConfig throw; it is never the result, and a later descriptor
\* that matches is still found.
MalformedRegexSkipped ==
    matched.filename # NULL =>
        /\ ~matched.threw
        /\ \A i \in 1..Len(configs) :
               Broken(configs[i]) =>
                   /\ matched.index # i
                   /\ (\E j \in (i + 1)..Len(configs) :
                           Matches(matched.filename, configs[j]))
                       => matched.index # 0

\* C5 happens: the registry starts with a descriptor that does not compile
\* and a later descriptor was returned.
MatchedAfterMalformed ==
    /\ matched.filename # NULL
    /\ ~matched.threw
    /\ matched.index > 1
    /\ Broken(configs[1])

\* C27: a descriptor with an empty filename pattern is never the result of
\* findMatchingConfig, so it hides no later descriptor and leaves the
\* fallback to the generic dialect in place.
EmptyPatternMatchesNothing ==
    (matched.filename # NULL /\ matched.index # 0) =>
        configs[matched.index].pattern # <<>>

(***************************************************************************)
(* The parsers                                                             *)
(***************************************************************************)

\* parseCSV was called and returned
Returned == parsed.error.kind = "none"

\* parseCSV was called and threw
Threw == parsed.error.kind \notin {"none", "not called"}

\* C6: every Transaction parseCSV returns has a date of the form
\* YYYY-MM-DD; a row whose date is empty or cannot be normalized is left out.
DatesAreNormalized ==
    \A k \in 1..Len(parsed.transactions) : IsIsoDate(parsed.transactions[k].date)

\* the header record of the file, as the generic dialect reads it
HeaderOf(lines) == CsvRecords(lines)[1]

\* one side of a row: empty or unparseable counts as 0
SideIn(dialect, token) ==
    IF ~Truthy(token) THEN 0
    ELSE IF dialect = 0 THEN parseAmount(token) ELSE parseFloatOr0(token)

InflowMinusOutflow(dialect, inflowStr, outflowStr) ==
    SideIn(dialect, inflowStr) - SideIn(dialect, outflowStr)

\* the raw Inflow, Outflow and Amount tokens of a record, under the dialect
TokensOf(dialect, record, lines, registry) ==
    IF dialect = 0
    THEN <<Column(record, HeaderOf(lines), cInflow),
           Column(record, HeaderOf(lines), cOutflow), NULL>>
    ELSE <<RawField(record, registry[dialect].columns, "Inflow"),
           RawField(record, registry[dialect].columns, "Outflow"),
           RawField(record, registry[dialect].columns, "Amount")>>

\* the amount the sign convention gives for these tokens
ConventionAmount(dialect, tokens) ==
    IF Truthy(tokens[1]) \/ Truthy(tokens[2])
    THEN InflowMinusOutflow(dialect, tokens[1], tokens[2])
    ELSE IF Truthy(tokens[3]) THEN SideIn(dialect, tokens[3])
    ELSE 0

\* C7: in both dialects the amount of a row that carries an Inflow or an
\* Outflow is inflow minus outflow; the Amount column is read only for a row
\* that carries neither.
AmountIsInflowMinusOutflow ==
    Returned =>
        \A k \in 1..Len(parsed.mapped) :
            parsed.mapped[k].amount =
                ConventionAmount(parsed.dialect,
                                 TokensOf(parsed.dialect, parsed.records[k],
                                          parsed.lines, configs))

\* the row carries all three tokens and its amount is negative, inflow minus
\* outflow, and not the Amount column's value
OutflowWins(amount, tokens) ==
    /\ Truthy(tokens[1]) /\ Truthy(tokens[2]) /\ Truthy(tokens[3])
    /\ amount < 0
    /\ amount = parseFloatOr0(tokens[1]) - parseFloatOr0(tokens[2])
    /\ amount # parseFloatOr0(tokens[3])

\* C7 happens: a matched dialect returned such a row.
OutflowSubtractedDespiteAmount ==
    /\ Returned
    /\ parsed.dialect # 0
    /\ \E k \in 1..Len(parsed.mapped) :
           OutflowWins(parsed.mapped[k].amount,
                       TokensOf(parsed.dialect, parsed.records[k], parsed.lines, configs))

\* a text field is absent or at most max characters long
AbsentOrWithin(text, max) == text = NULL \/ Len(text) <= max

\* C8: every Transaction parseCSV returns has a payee name of at most 200
\* characters and a memo of at most 100, or none.
TextWithinCaps ==
    \A k \in 1..Len(parsed.transactions) :
        /\ AbsentOrWithin(parsed.transactions[k].payee_name, PayeeMaxLength)
        /\ AbsentOrWithin(parsed.transactions[k].memo, MemoMaxLength)

\* parseCSV was called
Called == parsed.error.kind # "not called"

\* the raw Date token of a record, under the dialect
DateTokenOf(dialect, record, lines, registry) ==
    IF dialect = 0 THEN Column(record, HeaderOf(lines), cDate)
    ELSE RawField(record, registry[dialect].columns, "Date")

\* the data rows of the parsed file that have no date
RowsWithoutDate ==
    {k \in 1..Len(parsed.records) :
        ~Truthy(DateTokenOf(parsed.dialect, parsed.records[k], parsed.lines, configs))}

\* every data row of a generic file has as many fields as the header
WellFormed ==
    parsed.dialect = 0 =>
        \A k \in 1..Len(parsed.records) :
            Len(parsed.records[k]) = Len(HeaderOf(parsed.lines))

\* some rows have no date and the others do
SomeRowMalformed ==
    /\ Called /\ WellFormed
    /\ RowsWithoutDate # {}
    /\ RowsWithoutDate # 1..Len(parsed.records)

\* the rows that have a date were returned, and nothing was thrown
ValidRowsReturned ==
    /\ Returned
    /\ Len(parsed.transactions) = Len(parsed.records) - Cardinality(RowsWithoutDate)
    /\ \A k \in 1..Len(parsed.transactions) : parsed.transactions[k].date # <<>>

ThrewDateRequired ==
    /\ parsed.error.kind = "CsvParseError"
    /\ parsed.error.message = "Date is required"
    /\ parsed.error.line = Least(RowsWithoutDate) + 1
    /\ parsed.transactions = <<>>

HeaderOnly == Called /\ Len(CsvRecords(parsed.lines)) <= 1

\* C10: a file without data rows makes parseCSV throw the typed error for
\* "no data rows" in every dialect; no empty list is returned.
NoDataRowsIsFatal ==
    HeaderOnly =>
        /\ parsed.error.kind = "CsvParseError"
        /\ parsed.error.message = "CSV file contains no data rows"

\* parseCSV settled a filename
Named == named.filePath # NULL

Supplied == named.originalFilename # NULL

\* the base name is 'ynab-' + r + '-' + o
StagedAs(r, o) == Basename(named.filePath) = sTempPrefix \o r \o <<"-">> \o o

\* base is 'ynab-' + r + '-' + o for a hyphen-free r that ends before place k
StagedAt(base, k) ==
    /\ StartsWith(base, sTempPrefix)
    /\ k > Len(sTempPrefix)
    /\ base[k] = "-"
    /\ \A i \in (Len(sTempPrefix) + 1)..(k - 1) : base[i] # "-"

StagedName(base) == \E k \in 1..Len(base) : StagedAt(base, k)

ResolvedFrom(base) ==
    /\ \A k \in 1..Len(base) : StagedAt(base, k) => named.filename = Drop(base, k)
    /\ ~StagedName(base) => named.filename = base

DialectOf(filename) == findMatchingConfig(filename, configs).index

\* C12: the filename the dialect is matched against is originalFilename
\* when the caller supplies it; otherwise it is the base name of the path,
\* and a base name 'ynab-' + r + '-' + o with a hyphen-free r resolves to
\* exactly o, whatever hyphens o holds, so that the staged file gets the
\* dialect of o.
EffectiveFilenameResolved ==
    Named =>
        /\ Supplied => named.filename = named.originalFilename
        /\ ~Supplied =>
               /\ \A r \in RandomNames, o \in OriginalNames :
                      StagedAs(r, o) => named.filename = o
               /\ ResolvedFrom(Basename(named.filePath))
        /\ named.index = DialectOf(named.filename)

\* a staged upload whose original name holds hyphens resolved to that name
StagedHyphenatedResolved ==
    /\ Named
    /\ ~Supplied
    /\ \E r \in RandomNames : StagedAs(r, fNeonDated)
    /\ named.filename = fNeonDated
    /\ named.index = DialectOf(fNeonDated)
    /\ named.index # 0

\* the lines of a file as a reader counts them: a line terminator at the end
\* of the content ends the last line and starts no new one
TextLines(lines) ==
    IF Len(lines) > 0 /\ lines[Len(lines)] = <<>>
    THEN SubSeq(lines, 1, Len(lines) - 1)
    ELSE lines

\* the lines left when the first h and the last f are discarded
Between(textLines, h, f) ==
    IF h + f >= Len(textLines) THEN <<>>
    ELSE SubSeq(textLines, h + 1, Len(textLines) - f)

\* C13: under a matched dialect exactly the first headerRows lines and the
\* last footerRows lines of the file are discarded and every other non-empty
\* line is a data row, also when the content ends with a line terminator.
HeaderAndFooterDiscarded ==
    (Called /\ parsed.dialect # 0) =>
        parsed.records = CsvRecords(Between(TextLines(parsed.lines),
                                            configs[parsed.dialect].headerRows,
                                            configs[parsed.dialect].footerRows))

\* the data rows parseCSV accepts: those with a date
AcceptedRows == (1..Len(parsed.records)) \ RowsWithoutDate

\* place i is the k-th accepted row
IsNthAccepted(i, k) ==
    i \in AcceptedRows /\ Cardinality({j \in AcceptedRows : j <= i}) = k

\* C14: the Transactions parseCSV returns are the accepted rows in file
\* order, one Transaction for each accepted row, equal rows included.
OrderAndMultiplicityKept ==
    Returned =>
        /\ Len(parsed.transactions) = Cardinality(AcceptedRows)
        /\ \A k \in 1..Len(parsed.transactions) :
               \E i \in 1..Len(parsed.records) :
                   IsNthAccepted(i, k) /\ parsed.transactions[k] = parsed.mapped[i]

\* two rows of equal content were returned as two equal Transactions
EqualRowsBothReturned ==
    /\ Returned
    /\ parsed.dialect # 0
    /\ Len(parsed.records) = 2
    /\ parsed.records[1] = parsed.records[2]
    /\ Len(parsed.transactions) = 2
    /\ parsed.transactions[1] = parsed.transactions[2]

\* the canonical spelling of a header name, whatever its letter case
Canonical(name) ==
    IF \E i \in 1..Len(headerYnab) : toLowerCase(headerYnab[i]) = toLowerCase(name)
    THEN headerYnab[CHOOSE i \in 1..Len(headerYnab) :
                        toLowerCase(headerYnab[i]) = toLowerCase(name)]
    ELSE name

\* the same file with its header line in canonical case
WithCanonicalHeader(lines) ==
    <<[i \in 1..Len(lines[1]) |-> Canonical(lines[1][i])]>> \o Tail(lines)

SameOutcome(a, b) == a.error = b.error /\ a.transactions = b.transactions

\* C11: in the generic dialect the column names are matched against the
\* header whatever their letter case: a file validateCSV accepts is parsed
\* into the same Transactions as the same file under the canonical header.
HeaderCaseIgnored ==
    (Called /\ parsed.dialect = 0 /\ validateCSV(parsed.lines) = "ok")
        => SameOutcome(parsed, parseYnabCSV(WithCanonicalHeader(parsed.lines)))

\* validateCSV was called
Validated == validated.error.kind # "not called"

\* C21: validateCSV on a file without content throws a CsvParseError that
\* says the file has no header line, not the error of a header without a
\* Date column.
EmptyFileHasNoHeaderLine ==
    (Validated /\ validated.lines = EmptyContent) =>
        /\ validated.error.kind = "CsvParseError"
        /\ validated.error.message = "CSV file has no header line"
        /\ validated.error.message # validateCSVError(<<headerNoDate>>).message

\* parseCSV ran the matched dialect
MatchedDialect == parsed.error.kind # "not called" /\ parsed.dialect # 0

\* the columns of the row to which the mapping gives one of the names
ColumnsNamed(row, columnMapping, names) ==
    {i \in 1..Len(columnMapping) : columnMapping[i] \in names /\ i <= Len(row)}

\* the row without what the mapping does not read: the columns beyond the
\* mapping are cut off and the skipped columns are blanked
ReadPart(row, columnMapping) ==
    [i \in 1..(IF Len(row) <= Len(columnMapping) THEN Len(row) ELSE Len(columnMapping)) |->
        IF columnMapping[i] \in {"", "skip"} THEN <<>> ELSE row[i]]

\* record k was mapped position by position under the mapping of its dialect
MappedByPosition(row, t, bankConfig) ==
    /\ t = mapBankRow(ReadPart(row, bankConfig.columns), bankConfig)
    /\ t.date # <<>> =>
           \E i \in ColumnsNamed(row, bankConfig.columns, {"Date"}) :
               t.date = parseDate(row[i], bankConfig.dateFormat)
    /\ t.payee_name # NULL =>
           \E i \in ColumnsNamed(row, bankConfig.columns, {"Payee", "Description"}) :
               t.payee_name = sanitizeString(row[i], PayeeMaxLength)
    /\ t.memo # NULL =>
           \E i \in ColumnsNamed(row, bankConfig.columns, {"Memo", "Subject"}) :
               t.memo = sanitizeString(row[i], MemoMaxLength)
    /\ t.amount # 0 =>
           ColumnsNamed(row, bankConfig.columns, {"Inflow", "Outflow", "Amount"}) # {}

\* C25: under a matched dialect a field of a record comes from column i only
\* when the mapping names the field at position i and the row has a column
\* i; skipped positions, columns beyond the mapping and mapped positions
\* beyond the row give nothing, and rows of any length are parsed without
\* an error.
ColumnsMappedByPosition ==
    MatchedDialect =>
        /\ parsed.error = NoError
        /\ Len(parsed.mapped) = Len(parsed.records)
        /\ \A k \in 1..Len(parsed.records) :
               MappedByPosition(parsed.records[k], parsed.mapped[k],
                                configs[parsed.dialect])

\* the mapping of the dialect parseCSV ran
MappingUsed == configs[parsed.dialect].columns

\* C25 happens: one file had a row longer than the mapping of three columns,
\* whose further columns were left out, and a row shorter than the mapping,
\* whose missing columns were absent
LongAndShortRowMapped ==
    /\ MatchedDialect
    /\ MappingUsed = cfgCsv.columns
    /\ Len(parsed.records) = 2
    /\ Len(parsed.records[1]) > Len(MappingUsed)
    /\ parsed.mapped[1].payee_name # NULL /\ parsed.mapped[1].memo = NULL
    /\ Len(parsed.records[2]) < Len(MappingUsed)
    /\ parsed.mapped[2].payee_name = NULL /\ parsed.mapped[2].amount = 0

\* a text is absent, or not empty, free of the stripped control characters
\* and without whitespace at either end
CleanText(text) ==
    \/ text = NULL
    \/ /\ Len(text) > 0
       /\ \A i \in 1..Len(text) : text[i] \notin ControlChars
       /\ text[1] \notin WhiteSpace
       /\ text[Len(text)] \notin WhiteSpace

\* C26: every payee name and memo parseCSV returns is absent or a clean
\* text, also when it was cut at its length cap.
TextsCleanOrAbsent ==
    \A k \in 1..Len(parsed.transactions) :
        /\ CleanText(parsed.transactions[k].payee_name)
        /\ CleanText(parsed.transactions[k].memo)

(***************************************************************************)
(* The date normalizer                                                     *)
(***************************************************************************)

\* parseDate was called
Normalized == normalized.dateStr # NULL

\* four digits, a hyphen, two digits, a hyphen, two digits
IsoShaped(s) ==
    /\ Len(s) = 10
    /\ \A i \in 1..10 : IF i \in {5, 8} THEN s[i] = "-" ELSE s[i] \in Digits

\* C15: a token of the shape YYYY-MM-DD is returned unchanged under every
\* format hint and under none, so normalizing a normalized date changes
\* nothing.
IsoReturnedUnchanged ==
    Normalized =>
        /\ IsoShaped(normalized.dateStr) => normalized.date = normalized.dateStr
        /\ IsoShaped(normalized.date) =>
               parseDate(normalized.date, normalized.formatStr) = normalized.date

\* a token of the ISO shape that is no calendar date came back unchanged
\* under the hint of another format
IsoKeptUnderOtherHint ==
    /\ Normalized
    /\ normalized.dateStr = dIsoOdd
    /\ normalized.formatStr = "%d.%m.%Y"
    /\ normalized.date = dIsoOdd

\* the letters and separators of a hint, in order
HintParts(formatStr) ==
    CASE formatStr = "%Y-%m-%d" -> <<"Y", "-", "m", "-", "d">>
      [] formatStr = "%d.%m.%Y" -> <<"d", ".", "m", ".", "Y">>
      [] formatStr = "%d/%m/%Y" -> <<"d", "/", "m", "/", "Y">>
      [] formatStr = "%m/%d/%Y" -> <<"m", "/", "d", "/", "Y">>
      [] formatStr = "%Y%m%d"   -> <<"Y", "m", "d">>

\* the width of a part: four digits of year, two of month or day, one separator
PartWidth(part) == IF part = "Y" THEN 4 ELSE IF part \in {"m", "d"} THEN 2 ELSE 1

RECURSIVE PartsWidth(_, _)
PartsWidth(parts, n) == IF n = 0 THEN 0 ELSE PartsWidth(parts, n - 1) + PartWidth(parts[n])

\* the characters of the token at part i
Piece(token, parts, i) ==
    SubSeq(token, PartsWidth(parts, i - 1) + 1, PartsWidth(parts, i))

\* the token has the fixed-width structure of the hint
FitsHint(token, parts) ==
    /\ Len(token) = PartsWidth(parts, Len(parts))
    /\ \A i \in 1..Len(parts) :
           IF parts[i] \in {"Y", "m", "d"}
           THEN \A j \in 1..PartWidth(parts[i]) : Piece(token, parts, i)[j] \in Digits
           ELSE Piece(token, parts, i) = <<parts[i]>>

FieldOf(token, parts, letter) ==
    Piece(token, parts, CHOOSE i \in 1..Len(parts) : parts[i] = letter)

\* year, month and day read at the places the hint gives them
ReadByHint(token, parts) ==
    FieldOf(token, parts, "Y") \o <<"-">> \o FieldOf(token, parts, "m")
        \o <<"-">> \o FieldOf(token, parts, "d")

Hinted == Normalized /\ normalized.formatStr # "" /\ normalized.dateStr # <<>>

HintFits ==
    /\ normalized.formatStr \in KnownFormats
    /\ FitsHint(normalized.dateStr, HintParts(normalized.formatStr))

\* C16: under a known hint a token with the hint's fixed-width structure is
\* rearranged by position into YYYY-MM-DD; a token without that structure,
\* and any token under an unknown hint, gets what heuristic detection gives.
HintAppliedOrHeuristic ==
    (Hinted /\ ~IsoShaped(normalized.dateStr)) =>
        IF HintFits
        THEN normalized.date = ReadByHint(normalized.dateStr, HintParts(normalized.formatStr))
        ELSE normalized.date = autoDetectDate(normalized.dateStr)

\* a slash date was read month-first under its hint, where the heuristic
\* reads it otherwise
MonthFirstHintApplied ==
    /\ Hinted
    /\ normalized.formatStr = "%m/%d/%Y"
    /\ normalized.dateStr = dSlash
    /\ normalized.date = Iso(SubSeq(dSlash, 7, 10), SubSeq(dSlash, 1, 2), SubSeq(dSlash, 4, 5))
    /\ normalized.date # autoDetectDate(dSlash)

\* C17: without a hint a slash date NN/NN/YYYY is read day-first only when
\* its first field is above 12, and month-first otherwise.
SlashDateMonthFirst ==
    (Normalized /\ normalized.formatStr = "" /\ IsTwoTwoFour(normalized.dateStr, {"/"})) =>
        normalized.date =
            IF DigitsValue(SubSeq(normalized.dateStr, 1, 2)) > 12
            THEN Iso(SubSeq(normalized.dateStr, 7, 10), SubSeq(normalized.dateStr, 4, 5),
                     SubSeq(normalized.dateStr, 1, 2))
            ELSE Iso(SubSeq(normalized.dateStr, 7, 10), SubSeq(normalized.dateStr, 1, 2),
                     SubSeq(normalized.dateStr, 4, 5))

(***************************************************************************)
(* The upload target and the service calls                                 *)
(***************************************************************************)

\* uploadTransactions was called
Uploading == uploaded.outcome # "not called"

\* the call made this service call
Made(call) == \E i \in 1..Len(uploaded.calls) : uploaded.calls[i] = call

\* how many times the call made this service call
Times(call) == Cardinality({i \in 1..Len(uploaded.calls) : uploaded.calls[i] = call})

\* the ids of the accounts of a budget that are not closed, as listed
OpenAccountIds(budgetId) ==
    LET open == SelectSeq(ynab.accounts[budgetId], IsOpen)
    IN  [i \in 1..Len(open) |-> open[i].id]

\* the call ended in this error before any batch was submitted
RefusedWith(error, listed) ==
    /\ uploaded.outcome = "error"
    /\ uploaded.error = error
    /\ uploaded.listed = listed
    /\ ~Made("createTransactions")

BudgetAsResolved ==
    uploaded.failed.at # "getBudgets" =>
        IF uploaded.budgetIdOverride # ""
        THEN uploaded.budgetId = uploaded.budgetIdOverride /\ ~Made("getBudgets")
        ELSE IF uploaded.config.budgetId # ""
        THEN uploaded.budgetId = uploaded.config.budgetId /\ ~Made("getBudgets")
        ELSE IF Len(ynab.budgets) = 1 THEN uploaded.budgetId = ynab.budgets[1]
        ELSE IF Len(ynab.budgets) = 0 THEN RefusedWith("Error: No budgets found", <<>>)
        ELSE RefusedWith("Error: Multiple budgets found", ynab.budgets)

AccountAsResolved ==
    (uploaded.budgetId # "" /\ uploaded.failed.at # "getAccounts") =>
        IF uploaded.accountIdOverride # ""
        THEN uploaded.accountId = uploaded.accountIdOverride /\ ~Made("getAccounts")
        ELSE IF uploaded.config.accountId # ""
        THEN uploaded.accountId = uploaded.config.accountId /\ ~Made("getAccounts")
        ELSE IF Len(OpenAccountIds(uploaded.budgetId)) = 1
        THEN uploaded.accountId = OpenAccountIds(uploaded.budgetId)[1]
        ELSE IF Len(OpenAccountIds(uploaded.budgetId)) = 0
        THEN RefusedWith("Error: No open accounts found", <<>>)
        ELSE RefusedWith("Error: Multiple accounts found",
                         OpenAccountIds(uploaded.budgetId))

\* C18: the budget is the override, else the configured budget, else the
\* only budget the service lists, else the upload fails with an error that
\* lists every budget (or says there is none); the account is resolved in
\* the same order within that budget, among the accounts that are not closed.
TargetResolved == Uploading => (BudgetAsResolved /\ AccountAsResolved)

\* with nothing given, the only budget and its only open account were
\* selected, a closed account of the budget notwithstanding
OnlyOpenAccountSelected ==
    /\ Uploading
    /\ uploaded.budgetIdOverride = "" /\ uploaded.accountIdOverride = ""
    /\ uploaded.config = Config("", "")
    /\ uploaded.budgetId = "b1"
    /\ \E i \in 1..Len(ynab.accounts[uploaded.budgetId]) :
           ynab.accounts[uploaded.budgetId][i].closed
    /\ uploaded.accountId = "a1"
    /\ uploaded.outcome = "ok"

\* the batch of the call: one entry for each transaction, for the account
WholeBatch ==
    uploaded.batch = [i \in 1..Len(uploaded.transactions) |->
                         ynabTransaction(uploaded.transactions[i], uploaded.accountId)]

\* C19: an upload calls createTransactions at most once, with the whole
\* batch, as its last service call and only with the budget and the account
\* resolved; a failing createTransactions is followed by no further call.
SubmittedAtMostOnce ==
    Uploading =>
        /\ Times("createTransactions") <= 1
        /\ Made("createTransactions") =>
               /\ uploaded.calls[Len(uploaded.calls)] = "createTransactions"
               /\ uploaded.budgetId # "" /\ uploaded.accountId # ""
               /\ WholeBatch
        /\ (uploaded.budgetId = "" \/ uploaded.accountId = "") =>
               ~Made("createTransactions")
        /\ uploaded.failed.at = "createTransactions" =>
               uploaded.outcome = "error"

\* createTransactions threw after both lookups and was not called again
FailedSubmissionNotRetried ==
    /\ Uploading
    /\ uploaded.failed.at = "createTransactions"
    /\ uploaded.calls = <<"getBudgets", "getAccounts", "createTransactions">>
    /\ uploaded.outcome = "error"

\* C20: whichever service call of an upload fails, and however, the caller
\* gets the typed error YnabApiError.
ServiceFailuresTyped ==
    (Uploading /\ uploaded.failed # NoFault) => uploaded.error = "YnabApiError"

\* m is an integer nearest to amount * 1000
NearestMilliunits(m, amount) ==
    LET q == AmountScale \div MilliunitsPerUnit
        d == m * q - amount
    IN  2 * d <= q /\ 2 * d >= -q

\* the upload reached createTransactions
Submitted == Uploading /\ Made("createTransactions")

\* entry k of the batch is made of transaction k
EntryOf(k) ==
    /\ uploaded.batch[k].account_id = uploaded.accountId
    /\ uploaded.batch[k].date = uploaded.transactions[k].date
    /\ NearestMilliunits(uploaded.batch[k].amount, uploaded.transactions[k].amount)
    /\ uploaded.batch[k].cleared = "uncleared"
    /\ uploaded.batch[k].approved = FALSE
    /\ uploaded.batch[k].import_id = generateImportId(uploaded.transactions[k])

\* C23: the batch submitted has one entry for each transaction, in the
\* order of the input; each entry has the resolved account id, the date of
\* its transaction, its amount times 1000 rounded to the nearest integer,
\* cleared 'uncleared', approved false and the import id of its transaction.
BatchEntryPerTransaction ==
    Submitted =>
        /\ Len(uploaded.batch) = Len(uploaded.transactions)
        /\ AccountAsResolved
        /\ uploaded.accountId # ""
        /\ \A k \in 1..Len(uploaded.batch) : EntryOf(k)

\* C23 happens: a batch of 1.2346 and -1.2345 was submitted as 1235 and
\* -1234 milliunits in that order, for the account found by the lookup
FractionsRounded ==
    /\ Submitted
    /\ uploaded.transactions = <<txRoundedUp, txHalfway>>
    /\ uploaded.batch[1].amount = 1235
    /\ uploaded.batch[2].amount = -1234
    /\ uploaded.accountIdOverride = "" /\ uploaded.config.accountId = ""
    /\ uploaded.batch[1].account_id = "a1"

\* transactions j and k of the upload have one amount and date and differ
\* in payee or memo
AlikeButForText(j, k) ==
    /\ uploaded.transactions[j].amount = uploaded.transactions[k].amount
    /\ uploaded.transactions[j].date = uploaded.transactions[k].date
    /\ <<uploaded.transactions[j].payee_name, uploaded.transactions[j].memo>>
           # <<uploaded.transactions[k].payee_name, uploaded.transactions[k].memo>>

\* C24: two transactions of the same amount and date whose payee and memo
\* pairs differ are submitted with different import ids.
DifferentTextDifferentImportId ==
    Submitted =>
        \A j, k \in 1..Len(uploaded.batch) :
            AlikeButForText(j, k) => uploaded.batch[j].import_id # uploaded.batch[k].import_id

(***************************************************************************)
(* The import handlers                                                     *)
(***************************************************************************)

\* the imports that were received or started
Begun == {i \in Imports : requests[i].phase # "idle"}

\* the import made the given service call
MadeCall(i, call) ==
    \E k \in 1..Len(requests[i].calls) : requests[i].calls[k] = call

\* C22: a dry run, through the server or the CLI, is never suspended at
\* uploadTransactions and never resumes from it, so it makes no service call;
\* while every import so far was a dry run, nothing was uploaded and the
\* service has recorded nothing.
DryRunNeverUploads ==
    /\ \A i \in Begun :
           requests[i].dryRun =>
               /\ requests[i].phase = "done"
               /\ requests[i].uploads = 0
               /\ requests[i].calls = <<>>
               /\ ~MadeCall(i, "createTransactions")
               /\ requests[i].reply \in {"preview", "error", "nothing"}
    /\ (\A i \in Begun : requests[i].dryRun) =>
           /\ uploaded = NoUpload
           /\ ynab.recorded = {}

\* C22 happens: a dry run through the server and one through the CLI have
\* both ended with a preview of parsed transactions, and nothing was uploaded
DryRunsPreviewed ==
    \E i, j \in Begun :
        /\ requests[i].via = "server" /\ requests[j].via = "cli"
        /\ requests[i].dryRun /\ requests[j].dryRun
        /\ requests[i].reply = "preview" /\ requests[j].reply = "preview"
        /\ Len(requests[i].preview) > 0 /\ Len(requests[j].preview) > 0
        /\ ynab.recorded = {}

\* the import returns in this step
Returns(i) == requests[i].phase # "done" /\ requests'[i].phase = "done"

\* the staged files of the requests suspended at uploadTransactions
HeldFiles == {requests[i].tmpFile : i \in {j \in Begun : requests[j].phase = "uploading"}}

\* C28: when a POST /api/upload handler that wrote its staged file returns,
\* with any reply and whatever the other requests are doing, the file does
\* not exist; the files in the temp directory are those of suspended handlers.
StagedFileGoneAtReturn ==
    /\ [](files \subseteq HeldFiles)
    /\ [][\A i \in Imports :
              (Returns(i) /\ requests'[i].written) => requests'[i].tmpFile \notin files']_vars

\* C28 happens: a request whose upload failed has returned and its staged
\* file is gone, while another request is suspended with its file in place
FailedUploadCleanedUp ==
    \E i, j \in Begun :
        /\ requests[i].via = "server" /\ requests[i].phase = "done"
        /\ requests[i].written /\ requests[i].uploads = 1 /\ requests[i].status = 500
        /\ requests[i].tmpFile \notin files
        /\ requests[j].phase = "uploading" /\ requests[j].tmpFile \in files

(***************************************************************************)
(* The web page                                                            *)
(***************************************************************************)

\* C29: when every dry-run response has arrived and a preview is displayed,
\* it is the preview of state.currentFile, the file a click on Upload sends:
\* the file dropped last.
PreviewIsOfCurrentFile ==
    (ui.previewVisible /\ ui.dryRuns = {}) => ui.previewContent = ui.currentFile

\* the id state holds is the one the dropdown shows as chosen
Agrees(held, shown) == IF shown = "" THEN held \in {NoId, ""} ELSE held = shown

\* C30: state.selectedBudgetId and state.selectedAccountId are the budget and
\* the account the dropdowns show as chosen, and no click on Upload is
\* refused with 'No Account Selected' while an account is shown as chosen.
SelectionsMatchDropdowns ==
    /\ Agrees(ui.selectedBudgetId, ui.budgetSelect)
    /\ Agrees(ui.selectedAccountId, ui.accountSelect)
    /\ ~ui.refused

====
